---- MODULE Spec2Model ----
(***************************************************************************)
(* Model of the MICS orchestrator (idopo/Mics-backend).                    *)
(*                                                                         *)
(*   - the run controller  (orchestrator/orchestrator_station.py)          *)
(*   - the pilot registry  (orchestrator/state.py)                         *)
(*   - the control API     (orchestrator/api.py)                           *)
(*   - the router gateway  (orchestrator/RouterGateway.py)                 *)
(*   - the backend's run endpoints (api/main.py) the controller calls      *)
(*                                                                         *)
(* Three threads of the orchestrator touch the controller state: an HTTP   *)
(* worker of the control API (start_run / stop_run), the gateway's         *)
(* transport thread (the on_* handlers) and the trial worker               *)
(* (_handle_inc_trial / _advance_run_step).  Each is a small program       *)
(* counter machine whose steps are the calls the code makes.               *)
(***************************************************************************)
EXTENDS Integers, Sequences, FiniteSets, TLC

(***************************************************************************)
(* Bounds of the model.                                                    *)
(***************************************************************************)
MaxOps   == 2    \* operations (requests, received envelopes) per behaviour
NSteps   == 2    \* longest protocol, in steps
MaxGrad  == 2    \* largest NTrials graduation threshold of a step
MaxTrial == 2    \* cap of RunProgress.current_trial
MaxQueue == 2    \* stands for trial_queue's maxsize
MaxMsgs  == 1    \* envelopes the gateway is asked to send per behaviour
MaxCb    == 2    \* callbacks waiting on the IOLoop at a time
MaxRecv  == 2    \* frames the gateway receives per behaviour
MaxAge   == 3    \* cap of an outbox stamp's age, in wake-ups of the resend loop

(***************************************************************************)
(* Values.  A run's active_run dict {id, session_id, subject_key, ...} is  *)
(* represented by the id it carries; NoRun is Python's None (dict.get      *)
(* does not tell a missing key from a None value).  "" is None for the     *)
(* string fields; Absent marks a key a payload does not carry.             *)
(***************************************************************************)
NoRun      == 0
RunIds     == {7}                 \* rows of session_runs
UnknownRuns == {9}                \* ids with no row
ForeignRuns == {22}               \* active_run values a pilot claims in a payload
SessionOf(r) == 3                 \* SessionRun.session_id
PilotIdOf(r) == 1                 \* SessionRun.pilot_id

Statuses == {"pending", "running", "stopped", "completed", "error"}

Idents  == {"alpha", "beta"}      \* transport identities (ROUTER frames)
Ips     == {"ip1", "ip2"}
Absent  == "<absent>"
AbsentRun == -1

SubjectKey(r) == "bp_s" \o ToString(SessionOf(r)) \o "_r" \o ToString(r)
SubjectKeys   == {SubjectKey(r) : r \in RunIds}

VARIABLES
  mode,          \* "seq": one operation at a time; "conc": threads interleave
  faults,        \* classes of infrastructure failure the environment injects
  opsLeft,       \* operations still allowed (bound)
  \* ---- backend (api/main.py) ----
  runStatus,     \* SessionRun.status, by run id
  runError,      \* SessionRun.error_type / error_message
  runProgress,   \* RunProgress row of the run, or NoProgress
  protoSteps,    \* the protocol's steps: the NTrials threshold of each
  bePilots,      \* pilots table: sequence of [name, ip]; the id is the index
  \* ---- orchestrator ----
  registry,      \* OrchestratorState._pilots
  kv,            \* redis hashes pilot:{key}
  trialQueue,    \* OrchestratorStation.trial_queue
  dataQueue,     \* OrchestratorStation.data_queue
  probe,         \* the latest call of a function examined on its own: its
                 \* arguments and what it returned
  log,           \* history: envelopes handed to the gateway, backend
                 \* requests, and the control API's answers, in order
  pcH, hloc,     \* HTTP worker: position and locals
  pcT, tloc,     \* transport thread (handler in progress)
  pcW, wloc,     \* trial worker
  \* ---- router gateway (RouterGateway.py) ----
  gwCounter,     \* RouterGateway._counter: the next value of count()
  outbox,        \* RouterGateway._outbox: id -> (stamp, message)
  cbq,           \* callbacks posted to the IOLoop, in order
  scan,          \* _repeat_loop: position and the items it snapshotted
  msgs,          \* the Message objects made by _prepare, by id
  wire,          \* the frames given to router_stream.send_multipart so far
  inflight,      \* ids on their way to a pilot, not yet answered or lost
  lk,            \* RouterGateway._outbox_lock: its holder, and where each thread
                 \* stands with respect to it
  rx,            \* _on_recv: the latest frames received and what was done with them
  confirms,      \* the CONFIRM frames _on_recv handed to send_multipart, in order
  \* ---- callers of RouterGateway.send, statement by statement ----
  snd,           \* each calling thread: where it stands inside send()
  txlog,         \* history: send() entered / returned, frames given to the
                 \* socket, in order
  \* ---- OrchestratorState._last_seen ----
  lastSeen,      \* by identity: how often the stamp has been refreshed
  \* ---- data workers and sink handlers ----
  dw,            \* each _data_worker thread: position in _handle_data, locals
  subjHandlers,  \* OrchestratorStation.subjects_data_handlers: subject -> handler
  sinks,         \* the ElasticSearchDataHandler objects constructed, in order
  sinkLog        \* history: prepare_run / save / stop_run calls that returned

ctlVars == <<mode, faults, opsLeft, runStatus, runError, runProgress, protoSteps,
             bePilots, registry, kv, trialQueue, dataQueue, probe, log, pcH, hloc,
             pcT, tloc, pcW, wloc>>

gwVars == <<gwCounter, outbox, cbq, scan, msgs, wire, inflight, lk, rx, confirms>>

sndVars == <<snd, txlog>>
dataVars == <<dw, subjHandlers, sinks, sinkLog>>
auxVars == <<sndVars, lastSeen, dataVars>>

vars == <<ctlVars, gwVars, auxVars>>

(***************************************************************************)
(* History records.                                                        *)
(***************************************************************************)
Ev(kind, by, key, to, run, step, trial, etype, emsg, ok) ==
  [ev |-> kind, by |-> by, key |-> key, to |-> to, run |-> run, step |-> step,
   trial |-> trial, etype |-> etype, emsg |-> emsg, ok |-> ok]

\* gateway.send(to, key, task) that returned normally
SendEv(by, key, to, run, step, trial) ==
  Ev("send", by, key, to, run, step, trial, "", "", TRUE)
\* gateway.send that raised
SendFailEv(by, key, to, run) == Ev("send", by, key, to, run, -1, -1, "", "", FALSE)
\* a state-changing backend request and whether the backend accepted it
CallEv(by, call, run, etype, emsg, ok) ==
  Ev("call", by, call, "", run, -1, -1, etype, emsg, ok)
\* the control API's answer to POST /runs/{id}/start|stop
RetEv(op, run, code) == Ev("return", op, ToString(code), "", run, -1, -1, "", "", code = 200)
\* an operation begins; etype carries the status the run's row had then
BeginEv(op, run, st) == Ev("begin", op, "", "", run, -1, -1, st, "", TRUE)
\* a TASK_ERROR envelope is taken up: the identity it came from, the pilot it
\* names and its error_message
TaskErrorEv(sender, pk, run, emsg) ==
  Ev("begin", "task_error", sender, pk, run, -1, -1, "", emsg, TRUE)
\* a backend lookup whose failure the caller tolerates
LookupFailEv(by, call) == Ev("lookup", by, call, "", NoRun, -1, -1, "", "", FALSE)
\* a queue-feeding handler returns; etype tells whether the event was dropped
QueueEv(op, to, enqueued) ==
  Ev("end", op, "", to, NoRun, -1, -1, IF enqueued THEN "" ELSE "dropped", "", TRUE)
\* the answer to POST /runs/{id}/progress/increment
IncrementEv(run, step, trial, grad) ==
  Ev("call", "trial", "IncrementTrial", "", run, step, trial,
     IF grad THEN "graduate" ELSE "", "", TRUE)
\* on_handshake, on_state or on_ping returns: the identity the envelope came
\* from, the registry key the handler used, the value of a STATE
HandledEv(op, sender, pilot, value) ==
  Ev("end", op, sender, pilot, NoRun, -1, -1, value, "", TRUE)
\* a handler or a worker's handling of one event ends (ok: without exception)
EndEv(op, to, run, ok) == Ev("end", op, "", to, run, -1, -1, "", "", ok)

(***************************************************************************)
(* Backend: the run endpoints of api/main.py, as functions of the row.     *)
(* Each gives the HTTP status and the row after the request.               *)
(***************************************************************************)
NoProgress == [step |-> -1, trial |-> -1, grad |-> -1]
NoError    == [etype |-> "", emsg |-> ""]

\* graduation of step i: params["graduation"] = {type: NTrials, value: {current_trial: n}}
GradOf(steps, i) == steps[i + 1]

\* POST /session-runs/{id}/mark-running
MarkRunRunningAllowed == {"pending", "stopped"}
MarkRunRunning(st) ==
  IF st = "running" THEN [code |-> 200, status |-> st]
  ELSE IF st \notin MarkRunRunningAllowed THEN [code |-> 400, status |-> st]
  ELSE [code |-> 200, status |-> "running"]

\* Variant of StopSessionRun that answers 200 and writes nothing: C7 does not
\* hold of it.
StopIgnored(st) == [code |-> 200, status |-> st]

\* POST /session-runs/{id}/stop
StopSessionRun(st) ==
  IF st = "stopped" THEN [code |-> 200, status |-> st]
  ELSE IF st \notin {"running", "pending"} THEN [code |-> 400, status |-> st]
  ELSE [code |-> 200, status |-> "stopped"]

\* POST /session-runs/{id}/error
MarkRunError(st, etype, emsg) ==
  [code |-> 200, status |-> "error", error |-> [etype |-> etype, emsg |-> emsg]]

\* POST /session-runs/{id}/complete
CompleteSessionRun(st) == [code |-> 200, status |-> "completed"]

\* POST /runs/{id}/progress/increment
IncrementTrial(prog, steps) ==
  LET p0 == IF prog = NoProgress
            THEN [step |-> 0, trial |-> 0, grad |-> GradOf(steps, 0)]
            ELSE prog
      p1 == [p0 EXCEPT !.trial = p0.trial + 1]
  IN [code |-> 200, progress |-> p1,
      should_graduate |-> (p1.grad > 0 /\ p1.trial >= p1.grad),
      current_trial |-> p1.trial, current_step |-> p1.step]

\* POST /runs/{id}/progress/advance_step
AdvanceStep(prog, steps) ==
  IF prog = NoProgress
  THEN [code |-> 400, progress |-> prog, finished |-> FALSE, current_step |-> -1]
  ELSE IF prog.step >= Len(steps) - 1
  THEN [code |-> 200, progress |-> prog, finished |-> TRUE, current_step |-> -1]
  ELSE LET n == prog.step + 1
       IN [code |-> 200, finished |-> FALSE, current_step |-> n,
           progress |-> [step |-> n, trial |-> 0, grad |-> GradOf(steps, n)]]

\* GET /session-runs/{id}/with-progress: the "progress" object; -1 is null
GetRunWithProgress(prog) ==
  [current_step  |-> IF prog = NoProgress THEN -1 ELSE prog.step,
   current_trial |-> IF prog = NoProgress THEN -1 ELSE prog.trial]

\* POST /session-runs with mode resume | restart on a recoverable row, or new
CreateSessionRun(st, prog, m) ==
  IF m # "new" /\ st \in {"stopped", "error"}
  THEN [status |-> "pending", progress |-> IF m = "restart" THEN NoProgress ELSE prog,
        reused |-> TRUE]
  ELSE [status |-> st, progress |-> prog, reused |-> FALSE]

(***************************************************************************)
(* Pilot registry: orchestrator/state.py.  A record is [ip, state,         *)
(* active_run]; the registry is a function on the identities that have a   *)
(* record.                                                                 *)
(***************************************************************************)
EmptyRec == [ip |-> "", state |-> "", active_run |-> NoRun]
RecOf(reg, p) == IF p \in DOMAIN reg THEN reg[p] ELSE EmptyRec
Put(f, k, v) == [x \in DOMAIN f \cup {k} |-> IF x = k THEN v ELSE f[x]]

\* Variant of UpdateHandshake that merges and restores nothing: C4 does not
\* hold of it.
MergeHandshake(reg, p, payload) ==
  LET cur == RecOf(reg, p)
  IN Put(reg, p, [ip         |-> IF payload.ip = Absent THEN cur.ip ELSE payload.ip,
                  state      |-> IF payload.state = Absent THEN cur.state ELSE payload.state,
                  active_run |-> IF payload.active_run = AbsentRun THEN cur.active_run
                                 ELSE payload.active_run])

\* OrchestratorState.update_handshake: merge, then restore a non-None active_run
UpdateHandshake(reg, p, payload) ==
  LET cur    == RecOf(reg, p)
      merged == [ip         |-> IF payload.ip = Absent THEN cur.ip ELSE payload.ip,
                 state      |-> IF payload.state = Absent THEN cur.state ELSE payload.state,
                 active_run |-> IF payload.active_run = AbsentRun THEN cur.active_run
                                ELSE payload.active_run]
  IN Put(reg, p, IF cur.active_run # NoRun
                 THEN [merged EXCEPT !.active_run = cur.active_run]
                 ELSE merged)

\* self._last_seen[pilot] = time.time()
Refresh(seen, p) == Put(seen, p, IF p \in DOMAIN seen THEN seen[p] + 1 ELSE 1)

\* OrchestratorState.set_active_run
SetActiveRun(reg, p, run) == Put(reg, p, [RecOf(reg, p) EXCEPT !.active_run = run])

\* OrchestratorState.get_pilot
GetPilot(reg, p) == RecOf(reg, p)

\* Variant of ResolveCandidates that tries the ip before the names: C16 does
\* not hold of it.
ResolveIpFirst(reg, db_name, ip) ==
  IF ip # "" /\ \E k \in DOMAIN reg : reg[k].ip = ip THEN {k \in DOMAIN reg : reg[k].ip = ip}
  ELSE IF db_name # "" /\ db_name \in DOMAIN reg THEN {db_name}
  ELSE IF db_name # "" /\ ("pilot_" \o db_name) \in DOMAIN reg THEN {"pilot_" \o db_name}
  ELSE {}

\* OrchestratorState.resolve_pilot_key: the candidates in the order tried;
\* "" when none matches (KeyError).  The ip scan returns the first key of the
\* dict with that ip: any of them, as far as the caller can tell.
ResolveCandidates(reg, db_name, ip) ==
  IF db_name # "" /\ db_name \in DOMAIN reg THEN {db_name}
  ELSE IF db_name # "" /\ ("pilot_" \o db_name) \in DOMAIN reg THEN {"pilot_" \o db_name}
  ELSE IF ip # "" THEN {k \in DOMAIN reg : reg[k].ip = ip}
  ELSE {}

\* resolve_pilot_key(db_name=..., ip=...) called on the registry as it is
NoCall == [fn |-> ""]
ResolvePilotKey(db_name, ip) ==
  /\ probe = NoCall
  /\ LET cand == ResolveCandidates(registry, db_name, ip)
     IN IF cand = {}
        THEN probe' = [fn |-> "resolve_pilot_key", db_name |-> db_name, ip |-> ip,
                      raised |-> "KeyError", result |-> ""]
        ELSE \E k \in cand :
               probe' = [fn |-> "resolve_pilot_key", db_name |-> db_name, ip |-> ip,
                        raised |-> "", result |-> k]
  /\ UNCHANGED <<gwVars, auxVars, dataQueue, mode, faults, opsLeft, runStatus, runError,
                 runProgress, protoSteps, bePilots, registry, kv, trialQueue, log,
                 pcH, hloc, pcT, tloc, pcW, wloc>>

(***************************************************************************)
(* KV mirror: OrchestratorStation._redis_touch / _redis_set_active_run.    *)
(* A hash is [state, active_run]; updated_at is a wall-clock stamp and is  *)
(* left out.  A failed write is logged and changes nothing.                *)
(***************************************************************************)
EmptyHash == [state |-> "", active_run |-> NoRun]
HashOf(m, p) == IF p \in DOMAIN m THEN m[p] ELSE EmptyHash

RedisTouch(m, p, ok) == IF ok THEN Put(m, p, HashOf(m, p)) ELSE m

\* Variant of RedisSetActiveRun that writes nothing: C10 does not hold of it.
RedisUnchanged(m, p, run, okDel, okSet) == m

\* run is None: HDEL active_run (a failure is ignored), then HSET state IDLE;
\* otherwise one HSET of active_run and state RUNNING
RedisSetActiveRun(m, p, run, okDel, okSet) ==
  IF run = NoRun
  THEN LET afterDel == IF okDel /\ p \in DOMAIN m
                       THEN [m EXCEPT ![p].active_run = NoRun] ELSE m
       IN IF okSet THEN Put(afterDel, p, [HashOf(afterDel, p) EXCEPT !.state = "IDLE"])
          ELSE afterDel
  ELSE IF okSet THEN Put(m, p, [state |-> "RUNNING", active_run |-> run])
  ELSE m

(***************************************************************************)
(* Environment.  Outcomes(c) is what a call of class c can do: succeed,    *)
(* or also fail when the environment injects failures of that class.       *)
(*   "send": gateway.send raises (not started, serialization failure)      *)
(*   "http": a backend request fails in transport                          *)
(*   "kv"  : a redis write raises                                          *)
(***************************************************************************)
Outcomes(c) == IF c \in faults THEN BOOLEAN ELSE {TRUE}

AllIdle  == pcH = "idle" /\ pcT = "idle" /\ pcW = "idle"
CanBegin == mode = "conc" \/ AllIdle

RunExists(r) == r \in RunIds
StatusOf(r)  == IF RunExists(r) THEN runStatus[r] ELSE ""

\* GET /pilots/{id}
BackendPilot(id) == IF id \in DOMAIN bePilots THEN bePilots[id] ELSE [name |-> "", ip |-> ""]

NoLocals == [op |-> "", run |-> NoRun, pilot |-> "", step |-> -1, trial |-> -1,
             err |-> "", subject |-> "", emsg |-> ""]

(***************************************************************************)
(* Task payload: _build_first_step_task / _build_step_task and the         *)
(* resume branch of start_run.  The payload is represented by the step     *)
(* and trial it names; `prog` is the progress object fetched.              *)
(***************************************************************************)
StartTask(prog) ==
  IF prog.current_step # -1
  THEN [step |-> prog.current_step, trial |-> prog.current_trial]
  ELSE [step |-> 0, trial |-> 0]

(***************************************************************************)
(* HTTP worker: POST /runs/{id}/start -> OrchestratorStation.start_run     *)
(***************************************************************************)
ApiStartRun(r) ==
  /\ pcH = "idle" /\ CanBegin /\ opsLeft > 0
  /\ opsLeft' = opsLeft - 1
  /\ pcH' = "start_load"
  /\ hloc' = [NoLocals EXCEPT !.op = "start", !.run = r]
  /\ log' = Append(log, BeginEv("start", r, StatusOf(r)))
  /\ UNCHANGED <<gwVars, auxVars, probe, dataQueue, mode, faults, runStatus, runError, runProgress, protoSteps, bePilots,
                 registry, kv, trialQueue, pcT, tloc, pcW, wloc>>

\* api.py: an exception of the controller becomes 400 (ValueError) or 500
ApiAnswer(err) == IF err = "" THEN 200 ELSE IF err = "ValueError" THEN 400 ELSE 500

\* start_run steps 1-5: load run, pilot, pilot key, protocol context, progress
\* (whose failure is caught: the task is then built for step 0), task build
StartLoad ==
  /\ pcH = "start_load"
  /\ \E okRun \in Outcomes("http"), okProg \in Outcomes("http") :
       LET r    == hloc.run
           bp   == BackendPilot(PilotIdOf(r))
           cand == ResolveCandidates(registry, bp.name, bp.ip)
           prog == IF okProg THEN GetRunWithProgress(runProgress[r])
                   ELSE GetRunWithProgress(NoProgress)
       IN IF ~okRun \/ ~RunExists(r) \/ bp.name = ""
          THEN /\ pcH' = "idle" /\ hloc' = NoLocals
               /\ log' = Append(log, RetEv("start", r, ApiAnswer("HTTPError")))
          ELSE IF cand = {}
          THEN /\ pcH' = "idle" /\ hloc' = NoLocals
               /\ log' = Append(log, RetEv("start", r, ApiAnswer("KeyError")))
          ELSE IF StartTask(prog).step >= Len(protoSteps)
          THEN /\ pcH' = "idle" /\ hloc' = NoLocals
               /\ log' = Append(log, RetEv("start", r, ApiAnswer("IndexError")))
          ELSE /\ \E k \in cand :
                    hloc' = [hloc EXCEPT !.pilot = k, !.step = StartTask(prog).step,
                                         !.trial = StartTask(prog).trial]
               /\ pcH' = "start_send"
               /\ log' = IF okProg THEN log
                         ELSE Append(log, LookupFailEv("start", "GetRunWithProgress"))
  /\ UNCHANGED <<gwVars, auxVars, probe, dataQueue, mode, faults, opsLeft, runStatus, runError, runProgress, protoSteps,
                 bePilots, registry, kv, trialQueue, pcT, tloc, pcW, wloc>>

\* Variant of StartSend that goes on to mark the run running whatever the
\* send did: C2 does not hold of it.
StartSendThenMark ==
  /\ pcH = "start_send"
  /\ \E ok \in Outcomes("send") :
       log' = Append(log, IF ok THEN SendEv("start", "START", hloc.pilot, hloc.run,
                                            hloc.step, hloc.trial)
                          ELSE SendFailEv("start", "START", hloc.pilot, hloc.run))
  /\ pcH' = "start_mark" /\ hloc' = hloc
  /\ UNCHANGED <<gwVars, auxVars, probe, dataQueue, mode, faults, opsLeft, runStatus, runError, runProgress,
                 protoSteps, bePilots, registry, kv, trialQueue, pcT, tloc, pcW, wloc>>

\* start_run step 6: gateway.send(pilot_key, "START", task)
StartSend ==
  /\ pcH = "start_send"
  /\ \E ok \in Outcomes("send") :
       IF ok
       THEN /\ log' = Append(log, SendEv("start", "START", hloc.pilot, hloc.run,
                                         hloc.step, hloc.trial))
            /\ pcH' = "start_mark" /\ hloc' = hloc
       ELSE /\ log' = Append(log, SendFailEv("start", "START", hloc.pilot, hloc.run))
            /\ pcH' = "fail_mark" /\ hloc' = [hloc EXCEPT !.err = "RuntimeError"]
  /\ UNCHANGED <<gwVars, auxVars, probe, dataQueue, mode, faults, opsLeft, runStatus, runError, runProgress, protoSteps,
                 bePilots, registry, kv, trialQueue, pcT, tloc, pcW, wloc>>

\* Variant of StartMark that lets a failure of MarkRunRunning leave start_run:
\* C26 does not hold of it.
StartMarkRaises ==
  /\ pcH = "start_mark"
  /\ \E ok \in Outcomes("http") :
       LET r   == hloc.run
           res == MarkRunRunning(runStatus[r])
       IN IF ok /\ res.code = 200
          THEN /\ runStatus' = [runStatus EXCEPT ![r] = res.status]
               /\ log' = Append(log, CallEv("start", "MarkRunRunning", r, "", "", TRUE))
               /\ pcH' = "start_set" /\ hloc' = hloc
          ELSE /\ runStatus' = runStatus
               /\ log' = log \o <<CallEv("start", "MarkRunRunning", r, "", "", FALSE),
                                  RetEv("start", r, ApiAnswer("HTTPError"))>>
               /\ pcH' = "idle" /\ hloc' = NoLocals
  /\ UNCHANGED <<gwVars, auxVars, probe, dataQueue, mode, faults, opsLeft, runError, runProgress, protoSteps, bePilots,
                 registry, kv, trialQueue, pcT, tloc, pcW, wloc>>

\* start_run step 7: api.mark_run_running(run_id); a failure is logged only
StartMark ==
  /\ pcH = "start_mark"
  /\ \E ok \in Outcomes("http") :
       LET r   == hloc.run
           res == MarkRunRunning(runStatus[r])
       IN IF ok
          THEN /\ runStatus' = [runStatus EXCEPT ![r] = res.status]
               /\ log' = Append(log, CallEv("start", "MarkRunRunning", r, "", "",
                                            res.code = 200))
          ELSE /\ runStatus' = runStatus
               /\ log' = Append(log, CallEv("start", "MarkRunRunning", r, "", "", FALSE))
  /\ pcH' = "start_set" /\ hloc' = hloc
  /\ UNCHANGED <<gwVars, auxVars, probe, dataQueue, mode, faults, opsLeft, runError, runProgress, protoSteps, bePilots,
                 registry, kv, trialQueue, pcT, tloc, pcW, wloc>>

\* start_run step 8a: state.set_active_run(pilot_key, active_run)
StartSet ==
  /\ pcH = "start_set"
  /\ registry' = SetActiveRun(registry, hloc.pilot, hloc.run)
  /\ pcH' = "start_kv"
  /\ UNCHANGED <<gwVars, auxVars, probe, dataQueue, mode, faults, opsLeft, runStatus, runError, runProgress, protoSteps,
                 bePilots, kv, trialQueue, log, hloc, pcT, tloc, pcW, wloc>>

\* Variant of StartKv in which a failed redis write leaves start_run as an
\* exception: C37 does not hold of it.
StartKvRaises ==
  /\ pcH = "start_kv"
  /\ \E okSet \in Outcomes("kv") :
       /\ kv' = RedisSetActiveRun(kv, hloc.pilot, hloc.run, TRUE, okSet)
       /\ log' = Append(log, RetEv("start", hloc.run,
                                   ApiAnswer(IF okSet THEN "" ELSE "RedisError")))
  /\ pcH' = "idle" /\ hloc' = NoLocals
  /\ UNCHANGED <<gwVars, auxVars, probe, dataQueue, mode, faults, opsLeft, runStatus, runError, runProgress, protoSteps,
                 bePilots, registry, trialQueue, pcT, tloc, pcW, wloc>>

\* start_run step 8b: _redis_set_active_run(pilot_key, active_run); return
StartKv ==
  /\ pcH = "start_kv"
  /\ \E okSet \in Outcomes("kv") :
       kv' = RedisSetActiveRun(kv, hloc.pilot, hloc.run, TRUE, okSet)
  /\ log' = Append(log, RetEv("start", hloc.run, ApiAnswer("")))
  /\ pcH' = "idle" /\ hloc' = NoLocals
  /\ UNCHANGED <<gwVars, auxVars, probe, dataQueue, mode, faults, opsLeft, runStatus, runError, runProgress, protoSteps,
                 bePilots, registry, trialQueue, pcT, tloc, pcW, wloc>>

\* start_run / stop_run, the except branch of the send: api.mark_run_error(
\* run_id, "OrchGatewayError", str(e)); a failure of the request is logged only
FailMark ==
  /\ pcH = "fail_mark"
  /\ \E ok \in Outcomes("http") :
       LET r   == hloc.run
           res == MarkRunError(runStatus[r], "OrchGatewayError", hloc.err)
       IN /\ IF ok
             THEN /\ runStatus' = [runStatus EXCEPT ![r] = res.status]
                  /\ runError' = [runError EXCEPT ![r] = res.error]
             ELSE UNCHANGED <<runStatus, runError>>
          /\ log' = Append(log, CallEv(hloc.op, "MarkRunError", hloc.run,
                                       "OrchGatewayError", hloc.err, ok))
  /\ pcH' = "fail_clear" /\ hloc' = hloc
  /\ UNCHANGED <<gwVars, auxVars, probe, dataQueue, mode, faults, opsLeft, runProgress, protoSteps, bePilots, registry, kv,
                 trialQueue, pcT, tloc, pcW, wloc>>

\* Variant of FailClear that leaves the registry alone: C3 does not hold of it.
FailClearSkipped ==
  /\ pcH = "fail_clear"
  /\ pcH' = "fail_kv"
  /\ UNCHANGED <<gwVars, auxVars, probe, dataQueue, mode, faults, opsLeft, runStatus, runError, runProgress,
                 protoSteps, bePilots, registry, kv, trialQueue, log, hloc, pcT, tloc,
                 pcW, wloc>>

\* ... then state.set_active_run(pilot_key, None)
FailClear ==
  /\ pcH = "fail_clear"
  /\ registry' = SetActiveRun(registry, hloc.pilot, NoRun)
  /\ pcH' = "fail_kv"
  /\ UNCHANGED <<gwVars, auxVars, probe, dataQueue, mode, faults, opsLeft, runStatus, runError, runProgress, protoSteps,
                 bePilots, kv, trialQueue, log, hloc, pcT, tloc, pcW, wloc>>

\* ... then _redis_set_active_run(pilot_key, None); raise
FailKv ==
  /\ pcH = "fail_kv"
  /\ \E okDel \in Outcomes("kv"), okSet \in Outcomes("kv") :
       kv' = RedisSetActiveRun(kv, hloc.pilot, NoRun, okDel, okSet)
  /\ log' = Append(log, RetEv(hloc.op, hloc.run, ApiAnswer(hloc.err)))
  /\ pcH' = "idle" /\ hloc' = NoLocals
  /\ UNCHANGED <<gwVars, auxVars, probe, dataQueue, mode, faults, opsLeft, runStatus, runError, runProgress, protoSteps,
                 bePilots, registry, trialQueue, pcT, tloc, pcW, wloc>>

(***************************************************************************)
(* HTTP worker: POST /runs/{id}/stop -> OrchestratorStation.stop_run       *)
(***************************************************************************)
ApiStopRun(r) ==
  /\ pcH = "idle" /\ CanBegin /\ opsLeft > 0
  /\ opsLeft' = opsLeft - 1
  /\ pcH' = "stop_load"
  /\ hloc' = [NoLocals EXCEPT !.op = "stop", !.run = r]
  /\ log' = Append(log, BeginEv("stop", r, StatusOf(r)))
  /\ UNCHANGED <<gwVars, auxVars, probe, dataQueue, mode, faults, runStatus, runError, runProgress, protoSteps, bePilots,
                 registry, kv, trialQueue, pcT, tloc, pcW, wloc>>

\* stop_run: load run, pilot, pilot key
StopLoad ==
  /\ pcH = "stop_load"
  /\ \E okRun \in Outcomes("http") :
       LET r    == hloc.run
           bp   == BackendPilot(PilotIdOf(r))
           cand == ResolveCandidates(registry, bp.name, bp.ip)
       IN IF ~okRun \/ ~RunExists(r) \/ bp.name = ""
          THEN /\ pcH' = "idle" /\ hloc' = NoLocals
               /\ log' = Append(log, RetEv("stop", r, ApiAnswer("HTTPError")))
          ELSE IF cand = {}
          THEN /\ pcH' = "idle" /\ hloc' = NoLocals
               /\ log' = Append(log, RetEv("stop", r, ApiAnswer("KeyError")))
          ELSE /\ \E k \in cand : hloc' = [hloc EXCEPT !.pilot = k]
               /\ pcH' = "stop_send"
               /\ log' = log
  /\ UNCHANGED <<gwVars, auxVars, probe, dataQueue, mode, faults, opsLeft, runStatus, runError, runProgress, protoSteps,
                 bePilots, registry, kv, trialQueue, pcT, tloc, pcW, wloc>>

\* stop_run 1): gateway.send(pilot_key, "STOP")
StopSend ==
  /\ pcH = "stop_send"
  /\ \E ok \in Outcomes("send") :
       IF ok
       THEN /\ log' = Append(log, SendEv("stop", "STOP", hloc.pilot, hloc.run, -1, -1))
            /\ pcH' = "stop_mark" /\ hloc' = hloc
       ELSE /\ log' = Append(log, SendFailEv("stop", "STOP", hloc.pilot, hloc.run))
            /\ pcH' = "fail_mark" /\ hloc' = [hloc EXCEPT !.err = "RuntimeError"]
  /\ UNCHANGED <<gwVars, auxVars, probe, dataQueue, mode, faults, opsLeft, runStatus, runError, runProgress, protoSteps,
                 bePilots, registry, kv, trialQueue, pcT, tloc, pcW, wloc>>

\* stop_run 2): api.stop_session_run(run_id); a failure is logged only
StopMark ==
  /\ pcH = "stop_mark"
  /\ \E ok \in Outcomes("http") :
       LET r   == hloc.run
           res == StopSessionRun(runStatus[r])
       IN IF ok
          THEN /\ runStatus' = [runStatus EXCEPT ![r] = res.status]
               /\ log' = Append(log, CallEv("stop", "StopSessionRun", r, "", "",
                                            res.code = 200))
          ELSE /\ runStatus' = runStatus
               /\ log' = Append(log, CallEv("stop", "StopSessionRun", r, "", "", FALSE))
  /\ pcH' = "stop_clear" /\ hloc' = hloc
  /\ UNCHANGED <<gwVars, auxVars, probe, dataQueue, mode, faults, opsLeft, runError, runProgress, protoSteps, bePilots,
                 registry, kv, trialQueue, pcT, tloc, pcW, wloc>>

\* stop_run 3a): state.set_active_run(pilot_key, None)
StopClear ==
  /\ pcH = "stop_clear"
  /\ registry' = SetActiveRun(registry, hloc.pilot, NoRun)
  /\ pcH' = "stop_kv"
  /\ UNCHANGED <<gwVars, auxVars, probe, dataQueue, mode, faults, opsLeft, runStatus, runError, runProgress, protoSteps,
                 bePilots, kv, trialQueue, log, hloc, pcT, tloc, pcW, wloc>>

\* stop_run 3b): _redis_set_active_run(pilot_key, None); return
StopKv ==
  /\ pcH = "stop_kv"
  /\ \E okDel \in Outcomes("kv"), okSet \in Outcomes("kv") :
       kv' = RedisSetActiveRun(kv, hloc.pilot, NoRun, okDel, okSet)
  /\ log' = Append(log, RetEv("stop", hloc.run, ApiAnswer("")))
  /\ pcH' = "idle" /\ hloc' = NoLocals
  /\ UNCHANGED <<gwVars, auxVars, probe, dataQueue, mode, faults, opsLeft, runStatus, runError, runProgress, protoSteps,
                 bePilots, registry, trialQueue, pcT, tloc, pcW, wloc>>

(***************************************************************************)
(* Transport thread: the handlers RouterGateway._on_recv dispatches to.    *)
(* `sender` is the ROUTER identity frame.                                  *)
(***************************************************************************)
HandshakePayloads ==
  [pilot : {Absent, "alpha"}, ip : {Absent, "ip1"}, state : {Absent, "IDLE"},
   active_run : {AbsentRun, NoRun} \cup ForeignRuns]

\* payload.get("pilot") or msg.sender
PilotOf(payload, sender) ==
  IF payload.pilot \notin {Absent, ""} THEN payload.pilot ELSE sender

\* POST /pilots: update the row of that name, else insert one
UpsertPilot(tbl, name, ip) ==
  IF \E i \in DOMAIN tbl : tbl[i].name = name
  THEN [i \in DOMAIN tbl |-> IF tbl[i].name = name THEN [name |-> name, ip |-> ip]
                                                   ELSE tbl[i]]
  ELSE Append(tbl, [name |-> name, ip |-> ip])

\* on_handshake: touch the mirror, merge into the registry, sync the backend
RecvHandshake(sender, payload) ==
  /\ pcT = "idle" /\ CanBegin /\ opsLeft > 0
  /\ opsLeft' = opsLeft - 1
  /\ LET pilot == PilotOf(payload, sender)
     IN /\ \E okKv \in Outcomes("kv") : kv' = RedisTouch(kv, pilot, okKv)
        /\ registry' = UpdateHandshake(registry, pilot, payload)
        /\ \E okHttp \in Outcomes("http") :
             bePilots' = IF okHttp
                         THEN UpsertPilot(bePilots, pilot,
                                          IF payload.ip = Absent THEN "" ELSE payload.ip)
                         ELSE bePilots
        /\ lastSeen' = Refresh(lastSeen, pilot)
        /\ log' = Append(log, HandledEv("handshake", sender, pilot, ""))
  /\ UNCHANGED <<gwVars, sndVars, dataVars, probe, dataQueue, mode, faults, runStatus, runError, runProgress, protoSteps,
                 trialQueue, pcH, hloc, pcT, tloc, pcW, wloc>>

\* on_state: only the mirror is touched
StateValues == {"IDLE", "RUNNING"}
RecvState(sender, v) ==
  /\ pcT = "idle" /\ CanBegin /\ opsLeft > 0
  /\ opsLeft' = opsLeft - 1
  /\ \E okKv \in Outcomes("kv") : kv' = RedisTouch(kv, sender, okKv)
  /\ log' = Append(log, HandledEv("state", sender, sender, v))
  /\ UNCHANGED <<gwVars, auxVars, probe, dataQueue, mode, faults, runStatus, runError, runProgress, protoSteps,
                 bePilots, registry, trialQueue, pcH, hloc, pcT, tloc, pcW, wloc>>

\* on_ping
RecvPing(sender) ==
  /\ pcT = "idle" /\ CanBegin /\ opsLeft > 0
  /\ opsLeft' = opsLeft - 1
  /\ \E okKv \in Outcomes("kv") : kv' = RedisTouch(kv, sender, okKv)
  /\ log' = Append(log, HandledEv("ping", sender, sender, ""))
  /\ UNCHANGED <<gwVars, auxVars, probe, dataQueue, mode, faults, runStatus, runError, runProgress, protoSteps,
                 bePilots, registry, trialQueue, pcH, hloc, pcT, tloc, pcW, wloc>>

\* on_data (keys DATA, CONTINUOUS, STREAM): data_queue.put_nowait(deepcopy(
\* msg.value)); queue.Full drops the message
DataValues == {"d1", "d2"}
RecvData(sender, value) ==
  /\ pcT = "idle" /\ CanBegin /\ opsLeft > 0
  /\ opsLeft' = opsLeft - 1
  /\ dataQueue' = IF Len(dataQueue) < MaxQueue THEN Append(dataQueue, value)
                  ELSE dataQueue
  /\ log' = Append(log, QueueEv("data", sender, Len(dataQueue) < MaxQueue))
  /\ UNCHANGED <<gwVars, auxVars, probe, mode, faults, runStatus, runError, runProgress, protoSteps,
                 bePilots, registry, kv, trialQueue, pcH, hloc, pcT, tloc, pcW, wloc>>

\* _data_worker: value = data_queue.get(); _handle_data(value) hands it to the
\* subject's Elasticsearch handler; task_done()
DataTake ==
  /\ dataQueue # <<>>
  /\ dataQueue' = Tail(dataQueue)
  /\ UNCHANGED <<gwVars, auxVars, probe, mode, faults, opsLeft, runStatus, runError, runProgress,
                 protoSteps, bePilots, registry, kv, trialQueue, log, pcH, hloc, pcT,
                 tloc, pcW, wloc>>

\* Variant of RecvIncTrial that uses the queue's blocking put: C15 does not
\* hold of it.
RecvIncTrialBlocking(sender, subject) ==
  /\ pcT = "idle" /\ CanBegin /\ opsLeft > 0
  /\ Len(trialQueue) < MaxQueue
  /\ opsLeft' = opsLeft - 1
  /\ trialQueue' = Append(trialQueue, subject)
  /\ log' = Append(log, QueueEv("inc_trial", sender, TRUE))
  /\ UNCHANGED <<gwVars, auxVars, probe, dataQueue, mode, faults, runStatus, runError, runProgress,
                 protoSteps, bePilots, registry, kv, pcH, hloc, pcT, tloc, pcW, wloc>>

\* on_inc_trial: trial_queue.put_nowait(msg.value); queue.Full drops the event
TrialSubjects == SubjectKeys \cup {"", "bp_s3_r9"}
RecvIncTrial(sender, subject) ==
  /\ pcT = "idle" /\ CanBegin /\ opsLeft > 0
  /\ opsLeft' = opsLeft - 1
  /\ trialQueue' = IF Len(trialQueue) < MaxQueue THEN Append(trialQueue, subject)
                   ELSE trialQueue
  /\ log' = Append(log, QueueEv("inc_trial", sender, Len(trialQueue) < MaxQueue))
  /\ UNCHANGED <<gwVars, auxVars, probe, dataQueue, mode, faults, runStatus, runError, runProgress, protoSteps, bePilots,
                 registry, kv, pcH, hloc, pcT, tloc, pcW, wloc>>

\* GET /session-runs/by-subject-key/{key}: the run id, NoRun for 404
RunBySubjectKey(key) ==
  IF \E r \in RunIds : SubjectKey(r) = key
  THEN CHOOSE r \in RunIds : SubjectKey(r) = key
  ELSE NoRun

\* on_task_error: the envelope arrives; gateway.send(pilot_key, "STOP"), then
\* run = api.get_run_by_subject_key(subject_key), whose failure is tolerated.
\* An exception of the send leaves the handler (it is logged by _on_recv).
TaskErrorPayloads ==
  [pilot : {Absent, "alpha"}, subject : TrialSubjects, error_message : {Absent, "sensor fault"}]

RecvTaskError(sender, payload) ==
  /\ pcT = "idle" /\ CanBegin /\ opsLeft > 0
  /\ opsLeft' = opsLeft - 1
  /\ \E ok \in Outcomes("send"), okHttp \in Outcomes("http") :
       LET pk   == PilotOf(payload, sender)
           emsg == IF payload.error_message = Absent THEN "" ELSE payload.error_message
           r    == IF payload.subject \in {Absent, ""} \/ ~okHttp THEN NoRun
                   ELSE RunBySubjectKey(payload.subject)
           b    == TaskErrorEv(sender, pk, RunBySubjectKey(payload.subject), emsg)
           look == IF payload.subject \notin {Absent, ""} /\ ~okHttp
                   THEN <<LookupFailEv("task_error", "GetRunBySubjectKey")>> ELSE <<>>
       IN IF ok
          THEN /\ log' = log \o <<b, SendEv("task_error", "STOP", pk, NoRun, -1, -1)>> \o look
               /\ pcT' = IF r = NoRun THEN "te_clear_only" ELSE "te_mark"
               /\ tloc' = [NoLocals EXCEPT !.op = "task_error", !.pilot = pk, !.run = r,
                                           !.emsg = emsg]
          ELSE /\ log' = log \o <<b, SendFailEv("task_error", "STOP", pk, NoRun),
                                  EndEv("task_error", pk, NoRun, FALSE)>>
               /\ pcT' = "idle" /\ tloc' = NoLocals
  /\ UNCHANGED <<gwVars, auxVars, probe, dataQueue, mode, faults, runStatus, runError, runProgress, protoSteps,
                 bePilots, registry, kv, trialQueue, pcH, hloc, pcW, wloc>>

\* Variant of TeClearOnly that returns without clearing the registry: C11
\* does not hold of it.
TeReturnOnly ==
  /\ pcT = "te_clear_only"
  /\ log' = Append(log, EndEv("task_error", tloc.pilot, NoRun, TRUE))
  /\ pcT' = "idle" /\ tloc' = NoLocals
  /\ UNCHANGED <<gwVars, auxVars, probe, dataQueue, mode, faults, opsLeft, runStatus, runError, runProgress, protoSteps,
                 bePilots, registry, kv, trialQueue, pcH, hloc, pcW, wloc>>

\* on_task_error, no run: state.set_active_run(pilot_key, None); return
TeClearOnly ==
  /\ pcT = "te_clear_only"
  /\ registry' = SetActiveRun(registry, tloc.pilot, NoRun)
  /\ log' = Append(log, EndEv("task_error", tloc.pilot, NoRun, TRUE))
  /\ pcT' = "idle" /\ tloc' = NoLocals
  /\ UNCHANGED <<gwVars, auxVars, probe, dataQueue, mode, faults, opsLeft, runStatus, runError, runProgress, protoSteps,
                 bePilots, kv, trialQueue, pcH, hloc, pcW, wloc>>

\* on_task_error: api.mark_run_error(run["id"], "TaskError", error_message);
\* a failure of the request propagates to _on_recv, which logs it
TeMark ==
  /\ pcT = "te_mark"
  /\ \E ok \in Outcomes("http") :
       LET r   == tloc.run
           res == MarkRunError(runStatus[r], "TaskError", tloc.emsg)
       IN IF ok
          THEN /\ runStatus' = [runStatus EXCEPT ![r] = res.status]
               /\ runError' = [runError EXCEPT ![r] = res.error]
               /\ log' = Append(log, CallEv("task_error", "MarkRunError", r, "TaskError",
                                            tloc.emsg, TRUE))
               /\ pcT' = "te_clear" /\ tloc' = tloc
          ELSE /\ UNCHANGED <<runStatus, runError>>
               /\ log' = log \o <<CallEv("task_error", "MarkRunError", r, "TaskError",
                                         tloc.emsg, FALSE),
                                  EndEv("task_error", tloc.pilot, r, FALSE)>>
               /\ pcT' = "idle" /\ tloc' = NoLocals
  /\ UNCHANGED <<gwVars, auxVars, probe, dataQueue, mode, faults, opsLeft, runProgress, protoSteps, bePilots, registry, kv,
                 trialQueue, pcH, hloc, pcW, wloc>>

\* on_task_error: state.set_active_run(pilot_key, None)
TeClear ==
  /\ pcT = "te_clear"
  /\ registry' = SetActiveRun(registry, tloc.pilot, NoRun)
  /\ pcT' = "te_kv"
  /\ UNCHANGED <<gwVars, auxVars, probe, dataQueue, mode, faults, opsLeft, runStatus, runError, runProgress, protoSteps,
                 bePilots, kv, trialQueue, log, pcH, hloc, tloc, pcW, wloc>>

\* on_task_error: _redis_set_active_run(pilot_key, None); return
TeKv ==
  /\ pcT = "te_kv"
  /\ \E okDel \in Outcomes("kv"), okSet \in Outcomes("kv") :
       kv' = RedisSetActiveRun(kv, tloc.pilot, NoRun, okDel, okSet)
  /\ log' = Append(log, EndEv("task_error", tloc.pilot, tloc.run, TRUE))
  /\ pcT' = "idle" /\ tloc' = NoLocals
  /\ UNCHANGED <<gwVars, auxVars, probe, dataQueue, mode, faults, opsLeft, runStatus, runError, runProgress, protoSteps,
                 bePilots, registry, trialQueue, pcH, hloc, pcW, wloc>>

(***************************************************************************)
(* Trial worker: _trial_worker -> _handle_inc_trial -> _advance_run_step.  *)
(* An exception anywhere below is caught and logged by _trial_worker.      *)
(***************************************************************************)
WorkerVarsRest == <<gwVars, auxVars, probe, dataQueue, mode, faults, opsLeft, bePilots, pcH, hloc, pcT, tloc>>

\* the worker gives up the event in hand (return, or exception caught)
WEnd(okFlag) ==
  /\ log' = Append(log, EndEv("trial", wloc.pilot, wloc.run, okFlag))
  /\ pcW' = "idle" /\ wloc' = NoLocals

\* Variant of WTake that takes the newest event: C23 does not hold of it.
WTakeNewest ==
  /\ pcW = "idle" /\ CanBegin /\ trialQueue # <<>>
  /\ trialQueue' = SubSeq(trialQueue, 1, Len(trialQueue) - 1)
  /\ pcW' = "w_resolve"
  /\ wloc' = [NoLocals EXCEPT !.op = "trial", !.subject = trialQueue[Len(trialQueue)]]
  /\ log' = Append(log, BeginEv("trial", RunBySubjectKey(trialQueue[Len(trialQueue)]), ""))
  /\ UNCHANGED <<WorkerVarsRest, runStatus, runError, runProgress, protoSteps,
                 registry, kv>>

\* trial_queue.get()
WTake ==
  /\ pcW = "idle" /\ CanBegin /\ trialQueue # <<>>
  /\ trialQueue' = Tail(trialQueue)
  /\ pcW' = "w_resolve"
  /\ wloc' = [NoLocals EXCEPT !.op = "trial", !.subject = Head(trialQueue)]
  /\ log' = Append(log, BeginEv("trial", RunBySubjectKey(Head(trialQueue)), ""))
  /\ UNCHANGED <<WorkerVarsRest, runStatus, runError, runProgress, protoSteps,
                 registry, kv>>

\* _handle_inc_trial: resolve the run; only a running run counts
WResolve ==
  /\ pcW = "w_resolve"
  /\ \E ok \in Outcomes("http") :
       LET r == RunBySubjectKey(wloc.subject)
       IN IF wloc.subject = ""
          THEN WEnd(TRUE)
          ELSE IF ~ok \/ r = NoRun
          THEN WEnd(FALSE)
          ELSE IF runStatus[r] # "running"
          THEN WEnd(TRUE)
          ELSE /\ wloc' = [wloc EXCEPT !.run = r]
               /\ pcW' = "w_incr" /\ log' = log
  /\ UNCHANGED <<WorkerVarsRest, runStatus, runError, runProgress, protoSteps,
                 registry, kv, trialQueue>>

\* Variant of WIncr that advances after every counted trial: C24 does not hold
\* of it.
WIncrAlwaysAdvance ==
  /\ pcW = "w_incr"
  /\ runProgress[wloc.run] = NoProgress \/ runProgress[wloc.run].trial < MaxTrial
  /\ LET r   == wloc.run
         res == IncrementTrial(runProgress[r], protoSteps)
     IN /\ runProgress' = [runProgress EXCEPT ![r] = res.progress]
        /\ log' = Append(log, IncrementEv(r, res.current_step, res.current_trial,
                                          res.should_graduate))
        /\ pcW' = "adv_load" /\ wloc' = wloc
  /\ UNCHANGED <<WorkerVarsRest, runStatus, runError, protoSteps, registry, kv,
                 trialQueue>>

\* _handle_inc_trial: resp = api.increment_trial(run["id"])
WIncr ==
  /\ pcW = "w_incr"
  /\ runProgress[wloc.run] = NoProgress \/ runProgress[wloc.run].trial < MaxTrial
  /\ \E ok \in Outcomes("http") :
       LET r   == wloc.run
           res == IncrementTrial(runProgress[r], protoSteps)
       IN IF ~ok
          THEN /\ runProgress' = runProgress
               /\ log' = log \o <<CallEv("trial", "IncrementTrial", r, "", "", FALSE),
                                  EndEv("trial", "", r, FALSE)>>
               /\ pcW' = "idle" /\ wloc' = NoLocals
          ELSE /\ runProgress' = [runProgress EXCEPT ![r] = res.progress]
               /\ IF res.should_graduate
                  THEN /\ log' = Append(log, IncrementEv(r, res.current_step,
                                                         res.current_trial, TRUE))
                       /\ pcW' = "adv_load" /\ wloc' = wloc
                  ELSE /\ log' = log \o <<IncrementEv(r, res.current_step,
                                                      res.current_trial, FALSE),
                                          EndEv("trial", "", r, TRUE)>>
                       /\ pcW' = "idle" /\ wloc' = NoLocals
  /\ UNCHANGED <<WorkerVarsRest, runStatus, runError, protoSteps, registry, kv,
                 trialQueue>>

\* _advance_run_step: backend pilot, resolve_pilot_key
AdvLoad ==
  /\ pcW = "adv_load"
  /\ \E ok \in Outcomes("http") :
       LET bp   == BackendPilot(PilotIdOf(wloc.run))
           cand == ResolveCandidates(registry, bp.name, bp.ip)
       IN IF ~ok \/ bp.name = "" \/ cand = {}
          THEN WEnd(FALSE)
          ELSE /\ \E k \in cand : wloc' = [wloc EXCEPT !.pilot = k]
               /\ pcW' = "adv_stop" /\ log' = log
  /\ UNCHANGED <<WorkerVarsRest, runStatus, runError, runProgress, protoSteps,
                 registry, kv, trialQueue>>

\* _advance_run_step 1: gateway.send(pilot_key, "STOP")
AdvStop ==
  /\ pcW = "adv_stop"
  /\ \E ok \in Outcomes("send") :
       IF ok
       THEN /\ log' = Append(log, SendEv("trial", "STOP", wloc.pilot, wloc.run, -1, -1))
            /\ pcW' = "adv_wait" /\ wloc' = wloc
       ELSE /\ log' = log \o <<SendFailEv("trial", "STOP", wloc.pilot, wloc.run),
                               EndEv("trial", wloc.pilot, wloc.run, FALSE)>>
            /\ pcW' = "idle" /\ wloc' = NoLocals
  /\ UNCHANGED <<WorkerVarsRest, runStatus, runError, runProgress, protoSteps,
                 registry, kv, trialQueue>>

\* _wait_for_idle: returns when the registry says IDLE, or at the timeout
AdvWait ==
  /\ pcW = "adv_wait"
  /\ \E timeout \in BOOLEAN :
       /\ timeout \/ GetPilot(registry, wloc.pilot).state = "IDLE"
       /\ wloc' = [wloc EXCEPT !.err = IF timeout THEN "timeout" ELSE ""]
  /\ pcW' = "adv_step"
  /\ UNCHANGED <<WorkerVarsRest, runStatus, runError, runProgress, protoSteps,
                 registry, kv, trialQueue, log>>

\* Variant of AdvStep that treats every answer as finished: C21 does not hold
\* of it.
AdvStepAlwaysFinished ==
  /\ pcW = "adv_step"
  /\ LET r   == wloc.run
         res == AdvanceStep(runProgress[r], protoSteps)
     IN /\ runProgress' = [runProgress EXCEPT ![r] = res.progress]
        /\ log' = Append(log, CallEv("trial", "AdvanceStep", r,
                                     IF res.finished THEN "finished" ELSE "next",
                                     "", TRUE))
        /\ pcW' = "adv_complete"
        /\ wloc' = [wloc EXCEPT !.step = res.current_step, !.trial = 0]
  /\ UNCHANGED <<WorkerVarsRest, runStatus, runError, protoSteps, registry, kv,
                 trialQueue>>

\* _advance_run_step 2: resp = api.advance_step(run["id"])
AdvStep ==
  /\ pcW = "adv_step"
  /\ \E ok \in Outcomes("http") :
       LET r   == wloc.run
           res == AdvanceStep(runProgress[r], protoSteps)
       IN IF ~ok \/ res.code # 200
          THEN /\ runProgress' = runProgress
               /\ log' = log \o <<CallEv("trial", "AdvanceStep", r, "", "", FALSE),
                                  EndEv("trial", wloc.pilot, r, FALSE)>>
               /\ pcW' = "idle" /\ wloc' = NoLocals
          ELSE /\ runProgress' = [runProgress EXCEPT ![r] = res.progress]
               /\ log' = Append(log, CallEv("trial", "AdvanceStep", r,
                                            IF res.finished THEN "finished" ELSE "next",
                                            "", TRUE))
               /\ pcW' = IF res.finished THEN "adv_complete" ELSE "adv_build"
               /\ wloc' = [wloc EXCEPT !.step = res.current_step, !.trial = 0]
  /\ UNCHANGED <<WorkerVarsRest, runStatus, runError, protoSteps, registry, kv,
                 trialQueue>>

\* finished: api.complete_session_run(run["id"])
AdvComplete ==
  /\ pcW = "adv_complete"
  /\ \E ok \in Outcomes("http") :
       LET r   == wloc.run
           res == CompleteSessionRun(runStatus[r])
       IN IF ok
          THEN /\ runStatus' = [runStatus EXCEPT ![r] = res.status]
               /\ log' = Append(log, CallEv("trial", "CompleteSessionRun", r, "", "", TRUE))
               /\ pcW' = "adv_clear" /\ wloc' = wloc
          ELSE /\ runStatus' = runStatus
               /\ log' = log \o <<CallEv("trial", "CompleteSessionRun", r, "", "", FALSE),
                                  EndEv("trial", wloc.pilot, r, FALSE)>>
               /\ pcW' = "idle" /\ wloc' = NoLocals
  /\ UNCHANGED <<WorkerVarsRest, runError, runProgress, protoSteps, registry, kv,
                 trialQueue>>

\* Variant of AdvClear that leaves the registry alone: C8 does not hold of it.
AdvClearSkipped ==
  /\ pcW = "adv_clear"
  /\ pcW' = "adv_kv"
  /\ UNCHANGED <<WorkerVarsRest, runStatus, runError, runProgress, protoSteps, registry,
                 kv, trialQueue, log, wloc>>

\* finished: state.set_active_run(pilot_key, None)
AdvClear ==
  /\ pcW = "adv_clear"
  /\ registry' = SetActiveRun(registry, wloc.pilot, NoRun)
  /\ pcW' = "adv_kv"
  /\ UNCHANGED <<WorkerVarsRest, runStatus, runError, runProgress, protoSteps, kv,
                 trialQueue, log, wloc>>

\* finished: _redis_set_active_run(pilot_key, None); return
AdvKv ==
  /\ pcW = "adv_kv"
  /\ \E okDel \in Outcomes("kv"), okSet \in Outcomes("kv") :
       kv' = RedisSetActiveRun(kv, wloc.pilot, NoRun, okDel, okSet)
  /\ WEnd(TRUE)
  /\ UNCHANGED <<WorkerVarsRest, runStatus, runError, runProgress, protoSteps,
                 registry, trialQueue>>

\* not finished: time.sleep(10), then _build_step_task and the session context
AdvBuild ==
  /\ pcW = "adv_build"
  /\ \E ok \in Outcomes("http") :
       IF ~ok \/ BackendPilot(PilotIdOf(wloc.run)).name = "" \/ wloc.step >= Len(protoSteps)
       THEN WEnd(FALSE)
       ELSE /\ pcW' = "adv_start" /\ wloc' = wloc /\ log' = log
  /\ UNCHANGED <<WorkerVarsRest, runStatus, runError, runProgress, protoSteps,
                 registry, kv, trialQueue>>

\* _advance_run_step 3: gateway.send(pilot_key, "START", next_task)
AdvStart ==
  /\ pcW = "adv_start"
  /\ \E ok \in Outcomes("send") :
       IF ok
       THEN log' = log \o <<SendEv("trial", "START", wloc.pilot, wloc.run, wloc.step,
                                   wloc.trial),
                            EndEv("trial", wloc.pilot, wloc.run, TRUE)>>
       ELSE log' = log \o <<SendFailEv("trial", "START", wloc.pilot, wloc.run),
                            EndEv("trial", wloc.pilot, wloc.run, FALSE)>>
  /\ pcW' = "idle" /\ wloc' = NoLocals
  /\ UNCHANGED <<WorkerVarsRest, runStatus, runError, runProgress, protoSteps,
                 registry, kv, trialQueue>>

(***************************************************************************)
(* Backend client other than the orchestrator: the UI's POST /session-runs *)
(* with mode resume or restart makes a stopped or failed run pending again *)
(***************************************************************************)
UiCreateSessionRun(r, m) ==
  /\ CanBegin /\ opsLeft > 0
  /\ runStatus[r] \in {"stopped", "error"}
  /\ opsLeft' = opsLeft - 1
  /\ LET res == CreateSessionRun(runStatus[r], runProgress[r], m)
     IN /\ runStatus' = [runStatus EXCEPT ![r] = res.status]
        /\ runProgress' = [runProgress EXCEPT ![r] = res.progress]
        /\ runError' = [runError EXCEPT ![r] = NoError]
  /\ log' = Append(log, CallEv("ui", "CreateSessionRun", r, m, "", TRUE))
  /\ UNCHANGED <<gwVars, auxVars, probe, dataQueue, mode, faults, protoSteps, bePilots, registry, kv, trialQueue,
                 pcH, hloc, pcT, tloc, pcW, wloc>>

(***************************************************************************)
(* Router gateway: RouterGateway.py.  A message id "{gateway id}_{n}" is   *)
(* represented by n.  Time is counted in wake-ups of the resend loop: an   *)
(* outbox stamp is kept as the number of wake-ups since it was taken       *)
(* (age) and whether it was taken at a wake-up (aligned: _resend stores    *)
(* the scan's `now`) or in between (send stores time.time()).              *)
(***************************************************************************)
MsgIds == 0 .. (MaxMsgs - 1)
CapAge(a) == IF a >= MaxAge THEN MaxAge ELSE a + 1

\* Message.ttl as the codec initialises it
InitialTtl == 3

Remove(f, k) == [x \in DOMAIN f \ {k} |-> f[x]]

RECURSIVE SeqOf(_)
SeqOf(S) == IF S = {} THEN <<>>
            ELSE LET m == CHOOSE x \in S : \A y \in S : x <= y
                 IN <<m>> \o SeqOf(S \ {m})

\* RouterGateway._prepare
Prepare(to, key, norepeat, by) ==
  [to |-> to, key |-> key, ttl |-> InitialTtl, norepeat |-> norepeat, by |-> by,
   confirmed |-> FALSE, failed |-> FALSE]

\* RouterGateway.send: the condition under which the envelope enters the outbox
EntersOutbox(key, repeat, norepeat) == repeat /\ key # "CONFIRM" /\ ~norepeat

\* RouterGateway.send(to, key, value, flags=..., repeat=...), any thread.
\* _prepare takes the counter's next value before serialization can fail.
GwSend(to, key, repeat, norepeat, by) ==
  /\ gwCounter < MaxMsgs /\ Len(cbq) < MaxCb
  /\ gwCounter' = gwCounter + 1
  /\ \E ok \in Outcomes("send") :
       IF ok
       THEN /\ msgs' = Put(msgs, gwCounter, Prepare(to, key, norepeat, by))
            /\ cbq' = Append(cbq, [kind |-> "send", id |-> gwCounter, lag |-> 0])
            /\ outbox' = IF EntersOutbox(key, repeat, norepeat)
                         THEN Put(outbox, gwCounter, [age |-> 0, aligned |-> FALSE])
                         ELSE outbox
       ELSE UNCHANGED <<msgs, cbq, outbox>>
  /\ UNCHANGED <<ctlVars, auxVars, lk, rx, confirms, scan, wire, inflight>>

\* any caller of the gateway's send
SendKeys == {"START", "STOP", "CONFIRM"}
ClientSend(to, key, repeat, norepeat) == GwSend(to, key, repeat, norepeat, "client")

\* stop_run: self.gateway.send(pilot_key, "STOP"); repeat keeps its default
SendDefaultRepeat == FALSE
StopRunSend(to) == GwSend(to, "STOP", SendDefaultRepeat, FALSE, "stop_run")

\* Variant of RunCallback whose _resend does not count the retransmission
\* against the ttl: C5 does not hold of it.
RunCallbackKeepsTtl(ok) ==
  /\ cbq # <<>>
  /\ LET cb == Head(cbq)
         m  == msgs[cb.id]
     IN IF ~ok
        THEN /\ msgs' = [msgs EXCEPT ![cb.id].failed = TRUE]
             /\ UNCHANGED <<wire, inflight, outbox>>
        ELSE /\ wire' = wire \cup {[id |-> cb.id, to |-> m.to, key |-> m.key,
                                       re |-> cb.kind = "resend"]}
             /\ inflight' = inflight \cup {cb.id}
             /\ msgs' = msgs
             /\ outbox' = IF cb.kind = "resend"
                          THEN Put(outbox, cb.id, [age |-> cb.lag, aligned |-> TRUE])
                          ELSE outbox
  /\ cbq' = Tail(cbq)
  /\ UNCHANGED <<ctlVars, auxVars, lk, rx, confirms, gwCounter, scan>>

\* the IOLoop runs the oldest callback: _do_send or _resend
RunCallback(ok) ==
  /\ cbq # <<>>
  /\ LET cb == Head(cbq)
         m  == msgs[cb.id]
     IN IF ~ok
        THEN /\ msgs' = [msgs EXCEPT ![cb.id].failed = TRUE]
             /\ UNCHANGED <<wire, inflight, outbox>>
        ELSE IF cb.kind = "send"
        THEN /\ wire' = wire \cup {[id |-> cb.id, to |-> m.to, key |-> m.key,
                                       re |-> FALSE]}
             /\ inflight' = inflight \cup {cb.id}
             /\ UNCHANGED <<msgs, outbox>>
        ELSE /\ wire' = wire \cup {[id |-> cb.id, to |-> m.to, key |-> m.key,
                                       re |-> TRUE]}
             /\ inflight' = inflight \cup {cb.id}
             /\ msgs' = [msgs EXCEPT ![cb.id].ttl = m.ttl - 1]
             /\ outbox' = Put(outbox, cb.id, [age |-> cb.lag, aligned |-> TRUE])
  /\ cbq' = Tail(cbq)
  /\ UNCHANGED <<ctlVars, auxVars, lk, rx, confirms, gwCounter, scan>>

LoopCallback == \E ok \in Outcomes("send") : RunCallback(ok)

\* _on_recv of a CONFIRM -> _l_confirm: self._outbox.pop(msg.value, None)
LConfirm(box, value) == IF value \in DOMAIN box THEN Remove(box, value) ELSE box

RecvConfirm(id) ==
  /\ id \in inflight
  /\ inflight' = inflight \ {id}
  /\ outbox' = LConfirm(outbox, id)
  /\ msgs' = [msgs EXCEPT ![id].confirmed = TRUE]
  /\ UNCHANGED <<ctlVars, auxVars, lk, rx, confirms, gwCounter, cbq, scan, wire>>

\* the frame never reaches the pilot, or the pilot never answers
Lose(id) ==
  /\ id \in inflight
  /\ inflight' = inflight \ {id}
  /\ UNCHANGED <<ctlVars, auxVars, lk, rx, confirms, gwCounter, outbox, cbq, scan, msgs, wire>>

\* _repeat_loop wakes: now = time.time(); items = list(self._outbox.items())
ScanWake ==
  /\ scan.pc = "sleep"
  /\ LET aged == [i \in DOMAIN outbox |-> [outbox[i] EXCEPT !.age = CapAge(@)]]
     IN /\ outbox' = aged
        /\ scan' = [pc |-> "items",
                    items |-> [k \in 1 .. Cardinality(DOMAIN aged) |->
                                 [id |-> SeqOf(DOMAIN aged)[k],
                                  age |-> aged[SeqOf(DOMAIN aged)[k]].age,
                                  aligned |-> aged[SeqOf(DOMAIN aged)[k]].aligned]]]
  /\ cbq' = [k \in DOMAIN cbq |-> [cbq[k] EXCEPT !.lag = CapAge(@)]]
  /\ UNCHANGED <<ctlVars, auxVars, lk, rx, confirms, gwCounter, msgs, wire, inflight>>

\* (now - ts) > repeat_interval * 2, in wake-ups: certainly after three, after
\* two when the stamp was a wake-up's `now`, possibly after two otherwise
Overdue(age, aligned, late) == age >= 3 \/ (age = 2 /\ (aligned \/ late))

\* _repeat_loop, one item of the snapshot: expire it, or post _resend
ScanItem ==
  /\ scan.pc = "items" /\ scan.items # <<>>
  /\ LET it == Head(scan.items)
     IN IF msgs[it.id].ttl <= 0
        THEN /\ outbox' = LConfirm(outbox, it.id)
             /\ cbq' = cbq
        ELSE /\ outbox' = outbox
             /\ \E late \in BOOLEAN :
                  IF Overdue(it.age, it.aligned, late)
                  THEN /\ Len(cbq) < MaxCb
                       /\ cbq' = Append(cbq, [kind |-> "resend", id |-> it.id, lag |-> 0])
                  ELSE cbq' = cbq
  /\ scan' = [scan EXCEPT !.items = Tail(@)]
  /\ UNCHANGED <<ctlVars, auxVars, lk, rx, confirms, gwCounter, msgs, wire, inflight>>

\* _repeat_loop: time.sleep(self.repeat_interval)
ScanSleep ==
  /\ scan.pc = "items" /\ scan.items = <<>>
  /\ scan' = [scan EXCEPT !.pc = "sleep"]
  /\ UNCHANGED <<ctlVars, auxVars, lk, rx, confirms, gwCounter, outbox, cbq, msgs, wire, inflight>>

(***************************************************************************)
(* The outbox lock, one step per acquisition.  Three threads use it: a     *)
(* caller of send ("sender"), the IOLoop thread ("loop": _resend and       *)
(* _l_confirm) and the resend loop ("scanner").  A thread is idle, waits   *)
(* for the lock (pc "wait"), or is inside its `with` block (pc "in"); op   *)
(* is what the block does.  threading.Lock is not reentrant.               *)
(***************************************************************************)
Threads == {"sender", "loop", "scanner"}
NoHold  == [pc |-> "idle", op |-> "", id |-> 0, lag |-> 0]
LockFree == [holder |-> "free", thr |-> [t \in Threads |-> NoHold]]
Want(t, op, id, lag) ==
  [lk EXCEPT !.thr[t] = [pc |-> "wait", op |-> op, id |-> id, lag |-> lag]]

\* send(), as GwSend, up to `with self._outbox_lock:`
LkSend(to, key, repeat, norepeat) ==
  /\ lk.thr["sender"].pc = "idle"
  /\ gwCounter < MaxMsgs /\ Len(cbq) < MaxCb
  /\ gwCounter' = gwCounter + 1
  /\ \E ok \in Outcomes("send") :
       IF ok
       THEN /\ msgs' = Put(msgs, gwCounter, Prepare(to, key, norepeat, "client"))
            /\ cbq' = Append(cbq, [kind |-> "send", id |-> gwCounter, lag |-> 0])
            /\ lk' = IF EntersOutbox(key, repeat, norepeat)
                     THEN Want("sender", "insert", gwCounter, 0) ELSE lk
       ELSE UNCHANGED <<msgs, cbq, lk>>
  /\ UNCHANGED <<ctlVars, auxVars, rx, confirms, outbox, scan, wire, inflight>>

\* `with self._outbox_lock:` entered
LkAcquire(t) ==
  /\ lk.thr[t].pc = "wait" /\ lk.holder = "free"
  /\ lk' = [lk EXCEPT !.holder = t, !.thr[t].pc = "in"]
  /\ UNCHANGED <<ctlVars, auxVars, rx, confirms, gwCounter, outbox, cbq, scan, msgs, wire, inflight>>

SnapshotOf(box) ==
  [k \in 1 .. Cardinality(DOMAIN box) |->
     [id |-> SeqOf(DOMAIN box)[k], age |-> box[SeqOf(DOMAIN box)[k]].age,
      aligned |-> box[SeqOf(DOMAIN box)[k]].aligned]]

\* what the five `with` blocks do to the outbox and to the scanner's snapshot
BlockEffect(h) ==
  /\ outbox' = CASE h.op = "insert" -> Put(outbox, h.id, [age |-> 0, aligned |-> FALSE])
                 [] h.op = "store"  -> Put(outbox, h.id, [age |-> h.lag, aligned |-> TRUE])
                 [] h.op = "pop"    -> LConfirm(outbox, h.id)
                 [] OTHER           -> outbox
  /\ scan' = IF h.op = "snapshot" THEN [pc |-> "items", items |-> SnapshotOf(outbox)]
             ELSE scan

\* Variant of LkCritical in which the resend loop keeps the lock after its
\* snapshot, as if it walked the items inside the `with` block: C14 does not
\* hold of it.
LkCriticalNested(t) ==
  /\ lk.thr[t].pc = "in" /\ lk.holder = t
  /\ BlockEffect(lk.thr[t])
  /\ lk' = [lk EXCEPT !.holder = IF lk.thr[t].op = "snapshot" THEN t ELSE "free",
                      !.thr[t] = NoHold]
  /\ UNCHANGED <<ctlVars, auxVars, rx, confirms, gwCounter, cbq, msgs, wire, inflight>>

\* the body of the `with` block, and leaving it
LkCritical(t) ==
  /\ lk.thr[t].pc = "in" /\ lk.holder = t
  /\ BlockEffect(lk.thr[t])
  /\ lk' = [lk EXCEPT !.holder = "free", !.thr[t] = NoHold]
  /\ UNCHANGED <<ctlVars, auxVars, rx, confirms, gwCounter, cbq, msgs, wire, inflight>>

\* the IOLoop runs the oldest callback; _resend goes on to the lock
LkLoopCallback ==
  /\ lk.thr["loop"].pc = "idle" /\ cbq # <<>>
  /\ LET cb == Head(cbq)
         m  == msgs[cb.id]
     IN \E ok \in Outcomes("send") :
          IF ~ok
          THEN /\ msgs' = [msgs EXCEPT ![cb.id].failed = TRUE]
               /\ UNCHANGED <<wire, inflight, lk>>
          ELSE /\ wire' = wire \cup {[id |-> cb.id, to |-> m.to, key |-> m.key,
                                      re |-> cb.kind = "resend"]}
               /\ inflight' = inflight \cup {cb.id}
               /\ msgs' = IF cb.kind = "resend"
                          THEN [msgs EXCEPT ![cb.id].ttl = m.ttl - 1] ELSE msgs
               /\ lk' = IF cb.kind = "resend" THEN Want("loop", "store", cb.id, cb.lag)
                        ELSE lk
  /\ cbq' = Tail(cbq)
  /\ UNCHANGED <<ctlVars, auxVars, rx, confirms, gwCounter, outbox, scan>>

\* _on_recv of a CONFIRM: _l_confirm goes on to the lock
LkLoopConfirm(id) ==
  /\ lk.thr["loop"].pc = "idle" /\ id \in inflight
  /\ inflight' = inflight \ {id}
  /\ msgs' = [msgs EXCEPT ![id].confirmed = TRUE]
  /\ lk' = Want("loop", "pop", id, 0)
  /\ UNCHANGED <<ctlVars, auxVars, rx, confirms, gwCounter, outbox, cbq, scan, wire>>

\* _repeat_loop wakes and goes on to the lock for its snapshot
LkScanWake ==
  /\ scan.pc = "sleep" /\ lk.thr["scanner"].pc = "idle"
  /\ outbox' = [i \in DOMAIN outbox |-> [outbox[i] EXCEPT !.age = CapAge(@)]]
  /\ cbq' = [k \in DOMAIN cbq |-> [cbq[k] EXCEPT !.lag = CapAge(@)]]
  /\ scan' = [pc |-> "snap", items |-> <<>>]
  /\ lk' = Want("scanner", "snapshot", 0, 0)
  /\ UNCHANGED <<ctlVars, auxVars, rx, confirms, gwCounter, msgs, wire, inflight>>

\* _repeat_loop, one item: go on to the lock to expire it, or post _resend
LkScanItem ==
  /\ scan.pc = "items" /\ scan.items # <<>> /\ lk.thr["scanner"].pc = "idle"
  /\ LET it == Head(scan.items)
     IN IF msgs[it.id].ttl <= 0
        THEN /\ lk' = Want("scanner", "pop", it.id, 0)
             /\ cbq' = cbq
        ELSE /\ lk' = lk
             /\ \E late \in BOOLEAN :
                  IF Overdue(it.age, it.aligned, late)
                  THEN /\ Len(cbq) < MaxCb
                       /\ cbq' = Append(cbq, [kind |-> "resend", id |-> it.id, lag |-> 0])
                  ELSE cbq' = cbq
  /\ scan' = [scan EXCEPT !.items = Tail(@)]
  /\ UNCHANGED <<ctlVars, auxVars, rx, confirms, gwCounter, outbox, msgs, wire, inflight>>

\* _repeat_loop: time.sleep(self.repeat_interval)
LkScanSleep ==
  /\ scan.pc = "items" /\ scan.items = <<>> /\ lk.thr["scanner"].pc = "idle"
  /\ scan' = [scan EXCEPT !.pc = "sleep"]
  /\ UNCHANGED <<ctlVars, auxVars, lk, rx, confirms, gwCounter, outbox, cbq, msgs, wire, inflight>>

(***************************************************************************)
(* Receiving: RouterGateway._on_recv.  A frame list is [identity, ...,     *)
(* raw]; `env` is what raw decodes to (decodes = FALSE: too few frames, or *)
(* Message(raw) raises).  The handlers registered in main.py are           *)
(* represented by HANDSHAKE; `hres` is what the handler does.              *)
(***************************************************************************)
RecvKeys   == {"HANDSHAKE", "BOGUS", "CONFIRM"}
Listens    == {"HANDSHAKE", "CONFIRM"}
Claimed    == {"alpha", "mallory"}
RecvIds    == {"alpha_0"}
ConfirmValues == {0, 5}
\* what arrives: an identity frame and a payload frame that decodes or not,
\* or a single frame
Envelopes ==
  [frames : {2}, decodes : BOOLEAN, sender : Claimed, key : RecvKeys, id : RecvIds,
   value : ConfirmValues, norepeat : BOOLEAN]
  \cup {[frames |-> 1, decodes |-> FALSE, sender |-> "alpha", key |-> "BOGUS",
          id |-> "alpha_0", value |-> 0, norepeat |-> FALSE]}

\* the latest reception; `contained` collects the kinds of failure _on_recv
\* has met so far, `escaped` tells whether an exception left _on_recv
NoRx == [n |-> 0, ident |-> "", env |-> [decodes |-> FALSE], handler |-> "none",
         seen |-> "", replied |-> FALSE, contained |-> {}, escaped |-> FALSE]

\* Variant of Authoritative that believes the envelope: C12 does not hold of it.
KeepClaimed(msg, ident) == msg

\* msg.sender = sender_ident.decode(...)
Authoritative(msg, ident) == [msg EXCEPT !.sender = ident]

\* Variant of ShouldConfirm that answers every envelope without NOREPEAT: C13
\* does not hold of it.
ShouldConfirmAny(msg) == ~msg.norepeat

\* if msg.key != "CONFIRM" and ("NOREPEAT" not in (msg.flags or {}))
ShouldConfirm(msg) == msg.key # "CONFIRM" /\ ~msg.norepeat

\* confirm = self._prepare(msg.sender, "CONFIRM", msg.id, flags={"NOREPEAT": True})
ConfirmFor(msg, n, ok) ==
  [to |-> msg.sender, key |-> "CONFIRM", value |-> msg.id, norepeat |-> TRUE,
   id |-> n, ok |-> ok]

\* Variant of OnRecv without the try around the handler: C29 does not hold
\* of it.
OnRecvUncaught(ident, env, hres) ==
  /\ rx.n < MaxRecv /\ ~rx.escaped
  /\ LET msg == Authoritative(env, ident)
         h   == IF env.frames < 2 \/ ~env.decodes \/ msg.key \notin Listens THEN "none"
                ELSE IF msg.key = "CONFIRM" THEN "ok" ELSE hres
         rep == env.frames >= 2 /\ env.decodes /\ h # "raise" /\ ShouldConfirm(msg)
     IN /\ outbox' = IF h = "ok" /\ msg.key = "CONFIRM" THEN LConfirm(outbox, msg.value)
                     ELSE outbox
        /\ rx' = [n |-> rx.n + 1, ident |-> ident, env |-> env, handler |-> h,
                  seen |-> IF h = "none" THEN "" ELSE msg.sender, replied |-> rep,
                  contained |-> rx.contained, escaped |-> h = "raise"]
        /\ IF rep
           THEN /\ gwCounter' = gwCounter + 1
                /\ \E ok \in Outcomes("send") :
                     confirms' = Append(confirms, ConfirmFor(msg, gwCounter, ok))
           ELSE UNCHANGED <<confirms, gwCounter>>
  /\ UNCHANGED <<ctlVars, auxVars, lk, cbq, scan, msgs, wire, inflight>>

\* RouterGateway._on_recv(frames): hres is what the registered handler does
OnRecv(ident, env, hres) ==
  /\ rx.n < MaxRecv /\ ~rx.escaped
  /\ IF env.frames < 2
     THEN /\ rx' = [n |-> rx.n + 1, ident |-> "", env |-> env, handler |-> "none",
                    seen |-> "", replied |-> FALSE,
                    contained |-> rx.contained \cup {"short"}, escaped |-> FALSE]
          /\ UNCHANGED <<outbox, confirms, gwCounter>>
     ELSE IF ~env.decodes
     THEN /\ rx' = [n |-> rx.n + 1, ident |-> ident, env |-> env, handler |-> "none",
                    seen |-> "", replied |-> FALSE,
                    contained |-> rx.contained \cup {"undecodable"}, escaped |-> FALSE]
          /\ UNCHANGED <<outbox, confirms, gwCounter>>
     ELSE LET msg == Authoritative(env, ident)
              h   == IF msg.key \notin Listens THEN "none"
                     ELSE IF msg.key = "CONFIRM" THEN "ok" ELSE hres
              met == (IF msg.key \notin Listens THEN {"no handler"} ELSE {})
                     \cup (IF h = "raise" THEN {"handler raised"} ELSE {})
          IN /\ outbox' = IF msg.key = "CONFIRM" THEN LConfirm(outbox, msg.value)
                          ELSE outbox
             /\ IF ShouldConfirm(msg)
                THEN /\ gwCounter' = gwCounter + 1
                     /\ \E ok \in Outcomes("send") :
                          /\ confirms' = Append(confirms, ConfirmFor(msg, gwCounter, ok))
                          /\ rx' = [n |-> rx.n + 1, ident |-> ident, env |-> env,
                                    handler |-> h,
                                    seen |-> IF h = "none" THEN "" ELSE msg.sender,
                                    replied |-> TRUE,
                                    contained |-> rx.contained \cup met \cup
                                      (IF ok THEN {} ELSE {"confirm failed"}),
                                    escaped |-> FALSE]
                ELSE /\ rx' = [n |-> rx.n + 1, ident |-> ident, env |-> env,
                               handler |-> h,
                               seen |-> IF h = "none" THEN "" ELSE msg.sender,
                               replied |-> FALSE,
                               contained |-> rx.contained \cup met, escaped |-> FALSE]
                     /\ UNCHANGED <<confirms, gwCounter>>
  /\ UNCHANGED <<ctlVars, auxVars, lk, cbq, scan, msgs, wire, inflight>>

(***************************************************************************)
(* RouterGateway.send statement by statement, for callers on two threads   *)
(* (the HTTP worker and the trial worker).  The id "{gateway id}_{n}" is   *)
(* built by IdText; elsewhere it is represented by n.                      *)
(***************************************************************************)
MaxSends == 2    \* calls of send() per behaviour
MaxSndRecv == 1  \* handshakes received meanwhile

\* the threads that call send(); none is inside it
Callers == {"http", "trial"}
NoSend  == [pc |-> "idle", to |-> "", key |-> "", id |-> -1, repeat |-> FALSE]

\* the _data_worker threads (__init__ starts four; two are enough to interleave)
DataWorkers == {"dw1", "dw2"}
NoData == [subject |-> "", n |-> 0]
NoWork == [pc |-> "get", value |-> NoData, handler |-> 0]

AuxIdle ==
  /\ snd = [t \in Callers |-> NoSend] /\ txlog = <<>>
  /\ lastSeen = [p \in DOMAIN registry |-> 0]
  /\ dw = [w \in DataWorkers |-> NoWork]
  /\ subjHandlers = <<>> /\ sinks = <<>> /\ sinkLog = <<>>

GatewayId == "orchestrator"
\* f"{self.id}_{next(self._counter)}"
IdText(n) == GatewayId \o "_" \o ToString(n)

TxEv(ev, thr, id, to) == [ev |-> ev, thr |-> thr, id |-> id, to |-> to]
Calls == SelectSeq(txlog, LAMBDA e : e.ev = "call")

\* a thread enters send(to, key, value, repeat=...)
SndCall(t, to, key, repeat) ==
  /\ snd[t].pc = "idle" /\ Len(Calls) < MaxSends
  /\ snd' = [snd EXCEPT ![t] = [pc |-> "prepare", to |-> to, key |-> key, id |-> -1,
                                repeat |-> repeat]]
  /\ txlog' = Append(txlog, TxEv("call", t, -1, to))
  /\ UNCHANGED <<ctlVars, lastSeen, dataVars, gwVars>>

\* Variant of SndPrepare that reads the counter and leaves it as it is: C32
\* does not hold of it.
SndPrepareStale(t) ==
  /\ snd[t].pc = "prepare"
  /\ msgs' = Put(msgs, gwCounter, Prepare(snd[t].to, snd[t].key, FALSE, t))
  /\ snd' = [snd EXCEPT ![t].pc = "post", ![t].id = gwCounter]
  /\ txlog' = Append(txlog, TxEv("id", t, IdText(gwCounter), snd[t].to))
  /\ UNCHANGED <<ctlVars, lastSeen, dataVars, gwCounter, outbox, cbq, scan, wire, inflight, lk, rx, confirms>>

\* msg = self._prepare(to, key, value, flags): next(self._counter) is one
\* indivisible step of the interpreter; data = msg.serialize() may fail
SndPrepare(t) ==
  /\ snd[t].pc = "prepare"
  /\ gwCounter' = gwCounter + 1
  /\ \E ok \in BOOLEAN :
       IF ok
       THEN /\ msgs' = Put(msgs, gwCounter, Prepare(snd[t].to, snd[t].key, FALSE, t))
            /\ snd' = [snd EXCEPT ![t].pc = "post", ![t].id = gwCounter]
            /\ txlog' = Append(txlog, TxEv("id", t, IdText(gwCounter), snd[t].to))
       ELSE /\ msgs' = msgs
            /\ snd' = [snd EXCEPT ![t] = NoSend]
            /\ txlog' = txlog \o <<TxEv("id", t, IdText(gwCounter), snd[t].to),
                                   TxEv("raise", t, IdText(gwCounter), snd[t].to)>>
  /\ UNCHANGED <<ctlVars, lastSeen, dataVars, outbox, cbq, scan, wire, inflight, lk, rx, confirms>>

\* self.loop.add_callback(_do_send)
SndPost(t) ==
  /\ snd[t].pc = "post" /\ Len(cbq) < MaxCb
  /\ cbq' = Append(cbq, [kind |-> "send", id |-> snd[t].id, lag |-> 0])
  /\ snd' = [snd EXCEPT ![t].pc = "store"]
  /\ UNCHANGED <<ctlVars, lastSeen, dataVars, txlog, gwCounter, outbox, scan, msgs, wire, inflight, lk, rx,
                 confirms>>

\* if repeat ...: with self._outbox_lock: self._outbox[msg.id] = ...; return
SndReturn(t) ==
  /\ snd[t].pc = "store"
  /\ outbox' = IF EntersOutbox(snd[t].key, snd[t].repeat, FALSE)
               THEN Put(outbox, snd[t].id, [age |-> 0, aligned |-> FALSE])
               ELSE outbox
  /\ snd' = [snd EXCEPT ![t] = NoSend]
  /\ txlog' = Append(txlog, TxEv("ret", t, IdText(snd[t].id), snd[t].to))
  /\ UNCHANGED <<ctlVars, lastSeen, dataVars, gwCounter, cbq, scan, msgs, wire, inflight, lk, rx, confirms>>

\* Variant of SndLoopCallback in which the IOLoop runs the callback posted
\* last: C31 does not hold of it.
SndLoopNewestFirst ==
  /\ cbq # <<>>
  /\ LET cb == cbq[Len(cbq)]
         m  == msgs[cb.id]
     IN /\ wire' = wire \cup {[id |-> cb.id, to |-> m.to, key |-> m.key, re |-> FALSE]}
        /\ inflight' = inflight \cup {cb.id}
        /\ txlog' = Append(txlog, TxEv("tx", "loop", IdText(cb.id), m.to))
        /\ msgs' = msgs
  /\ cbq' = SubSeq(cbq, 1, Len(cbq) - 1)
  /\ UNCHANGED <<ctlVars, lastSeen, dataVars, snd, gwCounter, outbox, scan, lk, rx, confirms>>

\* the IOLoop runs the oldest callback, a _do_send, and send_multipart hands
\* the frames to the socket or raises
SndLoopCallback ==
  /\ cbq # <<>>
  /\ LET cb == Head(cbq)
         m  == msgs[cb.id]
     IN \E ok \in BOOLEAN :
          IF ~ok
          THEN /\ msgs' = [msgs EXCEPT ![cb.id].failed = TRUE]
               /\ txlog' = Append(txlog, TxEv("txfail", "loop", IdText(cb.id), m.to))
               /\ UNCHANGED <<wire, inflight>>
          ELSE /\ wire' = wire \cup {[id |-> cb.id, to |-> m.to, key |-> m.key,
                                      re |-> FALSE]}
               /\ inflight' = inflight \cup {cb.id}
               /\ txlog' = Append(txlog, TxEv("tx", "loop", IdText(cb.id), m.to))
               /\ msgs' = msgs
  /\ cbq' = Tail(cbq)
  /\ UNCHANGED <<ctlVars, lastSeen, dataVars, snd, gwCounter, outbox, scan, lk, rx, confirms>>

\* _on_recv of a HANDSHAKE on the transport thread, between the callbacks: the
\* CONFIRM it builds takes the counter's next value
SndOnRecv(ident) ==
  /\ rx.n < MaxSndRecv
  /\ LET env == [frames |-> 2, decodes |-> TRUE, sender |-> "alpha", key |-> "HANDSHAKE",
                 id |-> "alpha_0", value |-> 0, norepeat |-> FALSE]
         msg == Authoritative(env, ident)
     IN /\ gwCounter' = gwCounter + 1
        /\ \E ok \in BOOLEAN :
             /\ confirms' = Append(confirms, ConfirmFor(msg, gwCounter, ok))
             /\ rx' = [n |-> rx.n + 1, ident |-> ident, env |-> env, handler |-> "ok",
                       seen |-> msg.sender, replied |-> TRUE,
                       contained |-> rx.contained \cup
                                     (IF ok THEN {} ELSE {"confirm failed"}),
                       escaped |-> FALSE]
        /\ txlog' = Append(txlog, TxEv("id", "loop", IdText(gwCounter), msg.sender))
  /\ UNCHANGED <<ctlVars, lastSeen, dataVars, snd, outbox, lk, cbq, scan, msgs, wire, inflight>>

(***************************************************************************)
(* Initial states.  The backend outlives the orchestrator: at construction *)
(* the run's row can be in any status the endpoints produce, with the      *)
(* progress row that goes with it.  The registry holds the pilot that has  *)
(* announced itself, or nobody yet.                                        *)
(***************************************************************************)
Protocols == {[i \in 1 .. n |-> g] : n \in 1 .. NSteps, g \in 0 .. MaxGrad}

ProgressRows(steps) ==
  {NoProgress} \cup
  {[step |-> st, trial |-> t, grad |-> GradOf(steps, st)] :
     st \in 0 .. (Len(steps) - 1), t \in 0 .. MaxTrial}

\* the row combinations the endpoints leave behind
RowReachable(st, prog, steps) ==
  /\ prog # NoProgress => (prog.step = 0 => prog.trial >= 1)
  /\ IF st = "completed"
     THEN prog # NoProgress /\ prog.step = Len(steps) - 1
          /\ prog.grad > 0 /\ prog.trial = prog.grad
     ELSE prog = NoProgress \/ prog.grad = 0 \/ prog.trial < prog.grad

GwIdle ==
  /\ gwCounter = 0 /\ outbox = <<>> /\ cbq = <<>> /\ msgs = <<>> /\ wire = {}
  /\ inflight = {} /\ scan = [pc |-> "sleep", items |-> <<>>]
  /\ rx = NoRx /\ confirms = <<>> /\ lk = LockFree

CtlIdle ==
  /\ trialQueue = <<>> /\ dataQueue = <<>> /\ log = <<>> /\ probe = NoCall
  /\ pcH = "idle" /\ hloc = NoLocals
  /\ pcT = "idle" /\ tloc = NoLocals
  /\ pcW = "idle" /\ wloc = NoLocals

InitBackend ==
  /\ protoSteps \in Protocols
  /\ \E st \in Statuses, prog \in ProgressRows(protoSteps) :
       /\ RowReachable(st, prog, protoSteps)
       /\ runStatus = [r \in RunIds |-> st]
       /\ runProgress = [r \in RunIds |-> prog]
       /\ runError = [r \in RunIds |-> IF st = "error"
                                       THEN [etype |-> "TaskError", emsg |-> ""]
                                       ELSE NoError]
  /\ bePilots = <<[name |-> "alpha", ip |-> "ip1"]>>

InitRegistry ==
  \E known \in BOOLEAN :
    LET held == IF \E r \in RunIds : runStatus[r] = "running"
                THEN CHOOSE r \in RunIds : runStatus[r] = "running" ELSE NoRun
    IN IF known
       THEN /\ registry = Put(<<>>, "alpha", [ip |-> "ip1", state |-> "IDLE",
                                               active_run |-> held])
            /\ kv = IF held = NoRun THEN <<>>
                    ELSE Put(<<>>, "alpha", [state |-> "RUNNING", active_run |-> held])
       ELSE registry = <<>> /\ kv = <<>>

\* a row further along in its life has used up one of the operations
Fresh(r) == runStatus[r] = "pending" /\ runProgress[r] = NoProgress

InitWith(m, f) ==
  /\ mode = m /\ faults = f
  /\ InitBackend /\ InitRegistry /\ CtlIdle /\ GwIdle /\ AuxIdle
  /\ opsLeft = IF \A r \in RunIds : Fresh(r) THEN MaxOps ELSE MaxOps - 1

(***************************************************************************)
(* Spec: the controller, one operation at a time, over an infrastructure   *)
(* that answers.                                                           *)
(***************************************************************************)
Init == InitWith("seq", {})

Requests == RunIds \cup UnknownRuns

Next ==
  \/ \E r \in Requests : ApiStartRun(r)
  \/ StartLoad \/ StartSend \/ StartMark \/ StartSet \/ StartKv
  \/ \E r \in Requests : ApiStopRun(r)
  \/ StopLoad \/ StopSend \/ StopMark \/ StopClear \/ StopKv
  \/ \E p \in Idents, h \in HandshakePayloads : RecvHandshake(p, h)
  \/ \E p \in Idents, v \in StateValues : RecvState(p, v)
  \/ \E p \in Idents : RecvPing(p)
  \/ \E p \in Idents, sub \in TrialSubjects : RecvIncTrial(p, sub)
  \/ \E p \in Idents, e \in TaskErrorPayloads : RecvTaskError(p, e)
  \/ TeClearOnly \/ TeMark \/ TeClear \/ TeKv
  \/ WTake \/ WResolve \/ WIncr
  \/ AdvLoad \/ AdvStop \/ AdvWait \/ AdvStep \/ AdvComplete \/ AdvClear \/ AdvKv
  \/ AdvBuild \/ AdvStart
  \/ \E r \in RunIds, m \in {"resume", "restart"} : UiCreateSessionRun(r, m)

Spec == Init /\ [][Next]_vars

(***************************************************************************)
(* SpecSendFault: the same, and gateway.send may raise.                    *)
(***************************************************************************)
InitSendFault == InitWith("seq", {"send"})

NextSendFault == Next \/ FailMark \/ FailClear \/ FailKv

SpecSendFault == InitSendFault /\ [][NextSendFault]_vars

(***************************************************************************)
(* SpecHttpFault: the same as Spec, and a request to the backend may fail  *)
(* in transport.                                                           *)
(***************************************************************************)
InitHttpFault == InitWith("seq", {"http"})

SpecHttpFault == InitHttpFault /\ [][Next]_vars

(***************************************************************************)
(* Reading the history.  Under the one-at-a-time discipline the events of  *)
(* an operation are contiguous: from its "begin" to its "return" / "end".  *)
(***************************************************************************)
LastEv == log[Len(log)]

\* index of the latest "begin", 0 when there is none
LastBegin ==
  CHOOSE i \in 0 .. Len(log) :
    /\ i > 0 => log[i].ev = "begin"
    /\ \A j \in (i + 1) .. Len(log) : log[j].ev # "begin"

Seg == IF LastBegin = 0 THEN <<>> ELSE SubSeq(log, LastBegin, Len(log))

\* the latest operation is `op`, it is over, and nothing happened since
Done(op) ==
  /\ LastBegin > 0 /\ log[LastBegin].by = op
  /\ LastEv.ev \in {"return", "end"} /\ LastEv.by = op
DoneOk(op) == Done(op) /\ LastEv.ok

OpRun    == log[LastBegin].run      \* the run the latest operation is about
OpStatus == log[LastBegin].etype    \* its status when the operation began

IsAct(e)  == e.ev \in {"send", "call"}
IsSend(e) == e.ev = "send"
IsCall(e) == e.ev = "call"
Keys(evs) == [k \in DOMAIN evs |-> evs[k].key]
IsPrefixOf(a, b) == Len(a) <= Len(b) /\ \A k \in DOMAIN a : a[k] = b[k]

SendFailed(key) ==
  \E i \in DOMAIN Seg : Seg[i].ev = "send" /\ Seg[i].key = key /\ ~Seg[i].ok
Requested(call) == \E i \in DOMAIN Seg : Seg[i].ev = "call" /\ Seg[i].key = call
\* the pilot key the latest operation addressed
OpPilots == {Seg[i].to : i \in {k \in DOMAIN Seg : Seg[k].ev = "send"}}
NoSameInvocationBegin(i, j) == \A k \in (i + 1) .. j : log[k].ev # "begin"

ActiveRunEmpty(p) ==
  RecOf(registry, p).active_run = NoRun /\ HashOf(kv, p).active_run = NoRun

(***************************************************************************)
(* C1.  After a controller operation that completed successfully the       *)
(* backend status is the prescribed one: running after StartRun on a       *)
(* pending, stopped or error run; stopped after StopRun on a running or    *)
(* pending run; completed after an Advance whose AdvanceStep reported      *)
(* finished; error after TASK_ERROR handling and after a START send        *)
(* failure in StartRun.  (The claim as stated.)                            *)
(***************************************************************************)
C1_Stated ==
  /\ (DoneOk("start") /\ OpStatus \in {"pending", "stopped", "error"})
       => runStatus[OpRun] = "running"
  /\ (DoneOk("stop") /\ OpStatus \in {"running", "pending"})
       => runStatus[OpRun] = "stopped"
  /\ (DoneOk("trial") /\ \E i \in DOMAIN Seg :
                           Seg[i].key = "AdvanceStep" /\ Seg[i].etype = "finished")
       => runStatus[OpRun] = "completed"
  /\ (DoneOk("task_error") /\ OpRun # NoRun) => runStatus[OpRun] = "error"
  /\ (Done("start") /\ SendFailed("START")) => runStatus[OpRun] = "error"

\* StartRun on a run in status error has answered 200 and the row still says error
C1_Witness ==
  /\ DoneOk("start") /\ OpStatus = "error" /\ LastEv = RetEv("start", OpRun, 200)
  /\ runStatus[OpRun] = "error"

(***************************************************************************)
(* C2.  In every StartRun invocation MarkRunRunning is requested only      *)
(* after gateway.send accepted the START of that run in the same           *)
(* invocation; after a START send failure it is never requested in that    *)
(* invocation, and the invocation does not leave the row at running.       *)
(***************************************************************************)
C2_StartBeforeRunning ==
  /\ \A i \in DOMAIN log :
       (log[i].ev = "call" /\ log[i].key = "MarkRunRunning") =>
         \E j \in 1 .. (i - 1) :
           /\ log[j].ev = "send" /\ log[j].key = "START" /\ log[j].ok
           /\ log[j].by = "start" /\ log[j].run = log[i].run
           /\ log[j].to # ""
           /\ NoSameInvocationBegin(j, i)
  /\ \A i \in DOMAIN log :
       (log[i].ev = "send" /\ log[i].key = "START" /\ log[i].by = "start" /\ ~log[i].ok) =>
         \A j \in (i + 1) .. Len(log) :
           NoSameInvocationBegin(i, j) =>
             ~(log[j].ev = "call" /\ log[j].key = "MarkRunRunning")
  /\ (Done("start") /\ SendFailed("START")) => runStatus[OpRun] # "running"

\* a StartRun whose START was accepted and whose MarkRunRunning then succeeded
C2_Witness ==
  /\ DoneOk("start")
  /\ \E i \in DOMAIN Seg : Seg[i].ev = "call" /\ Seg[i].key = "MarkRunRunning" /\ Seg[i].ok
  /\ runStatus[OpRun] = "running"

(***************************************************************************)
(* C3.  When gateway.send raises while StartRun sends START for run r: the *)
(* backend receives MarkRunError(r, "OrchGatewayError", reason), there is  *)
(* no MarkRunRunning, the pilot's active_run is empty in the registry and  *)
(* in the KV mirror, and POST /runs/{r}/start answers 500.                 *)
(***************************************************************************)
C3_SendFailure ==
  (Done("start") /\ SendFailed("START")) =>
    /\ \E i \in DOMAIN Seg :
         /\ Seg[i].ev = "call" /\ Seg[i].key = "MarkRunError" /\ Seg[i].ok
         /\ Seg[i].run = OpRun /\ Seg[i].etype = "OrchGatewayError" /\ Seg[i].emsg # ""
    /\ ~Requested("MarkRunRunning")
    /\ \A p \in OpPilots : ActiveRunEmpty(p)
    /\ OpPilots # {}
    /\ LastEv = RetEv("start", OpRun, 500)
    /\ runStatus[OpRun] = "error" /\ runError[OpRun].etype = "OrchGatewayError"

\* the START of a run that was running could not be sent; 500 was answered
C3_Witness ==
  /\ Done("start") /\ SendFailed("START") /\ OpStatus = "running"
  /\ LastEv.key = "500"

(***************************************************************************)
(* C4.  A HANDSHAKE never clears or replaces a non-empty active_run: for   *)
(* every pilot whose record holds one before on_handshake merges a         *)
(* payload (with or without an active_run field of its own), the record    *)
(* holds the same value afterwards.                                        *)
(***************************************************************************)
HandshakeStep ==
  /\ Len(log') = Len(log) + 1
  /\ log'[Len(log')].ev = "end" /\ log'[Len(log')].by = "handshake"

C4_HandshakeKeepsActiveRun ==
  [][HandshakeStep =>
       \A p \in Idents :
         RecOf(registry, p).active_run # NoRun =>
           GetPilot(registry', p).active_run = RecOf(registry, p).active_run]_vars

\* a handshake of the pilot that holds a run has been merged
C4_Witness ==
  /\ Len(log) > 0 /\ LastEv = HandledEv("handshake", "alpha", "alpha", "")
  /\ RecOf(registry, "alpha").active_run \in RunIds

(***************************************************************************)
(* C7.  StartRun(r) on a pending run directly followed by StopRun(r),      *)
(* both answered without error, leaves r stopped in the backend and the    *)
(* pilot's active_run empty in the registry and absent from the KV mirror. *)
(***************************************************************************)
StartThenStop(i, j) ==
  /\ i < j /\ j < Len(log)
  /\ log[i] = BeginEv("start", log[i].run, "pending")
  /\ log[j].ev = "begin" /\ log[j].by = "stop" /\ log[j].run = log[i].run
  /\ \A k \in (i + 1) .. (j - 1) : log[k].by = "start" /\ log[k].ev # "begin"
  /\ log[j - 1] = RetEv("start", log[i].run, 200)
  /\ \A k \in (j + 1) .. Len(log) : log[k].by = "stop" /\ log[k].ev # "begin"
  /\ LastEv = RetEv("stop", log[i].run, 200)

C7_StartThenStop ==
  \A i, j \in DOMAIN log :
    StartThenStop(i, j) =>
      /\ runStatus[log[i].run] = "stopped"
      /\ OpPilots # {}
      /\ \A p \in OpPilots : ActiveRunEmpty(p)
      /\ \A k \in i .. j : (log[k].ev = "send") => log[k].to \in OpPilots

C7_Witness ==
  \E i, j \in DOMAIN log :
    /\ StartThenStop(i, j)
    /\ runProgress[log[i].run] = NoProgress
    /\ runStatus[log[i].run] = "stopped"

(***************************************************************************)
(* C8.  When IncrementTrial reports should_graduate on the last step, the  *)
(* trial worker acts in the order STOP to the run's pilot, AdvanceStep     *)
(* (finished), CompleteSessionRun, sends no START, and leaves the pilot's  *)
(* active_run empty.  For a one-step, one-trial run started by StartRun    *)
(* the envelopes are START(step 0, trial 0), STOP and the backend requests *)
(* MarkRunRunning, IncrementTrial, AdvanceStep, CompleteSessionRun.        *)
(***************************************************************************)
GraduateOrder == <<"IncrementTrial", "STOP", "AdvanceStep", "CompleteSessionRun">>

GraduatedOnLastStep ==
  /\ LastBegin > 0 /\ log[LastBegin].by = "trial"
  /\ \E i \in DOMAIN Seg :
       /\ Seg[i].key = "IncrementTrial" /\ Seg[i].etype = "graduate"
       /\ Seg[i].step = Len(protoSteps) - 1

\* the whole history is StartRun(r) on a pending run, one trial event, its handling
OneTrialRun(r) ==
  /\ protoSteps = <<1>>
  /\ Len(log) > 1 /\ log[1] = BeginEv("start", r, "pending")
  /\ \E i \in DOMAIN log : log[i] = RetEv("start", r, 200)
  /\ \A i \in DOMAIN log : log[i].by \in {"start", "inc_trial", "trial"}
  /\ Cardinality({i \in DOMAIN log : log[i].ev = "begin"}) = 2
  /\ DoneOk("trial") /\ OpRun = r

C8_Graduation ==
  /\ GraduatedOnLastStep =>
       LET acts == SelectSeq(Seg, IsAct)
       IN /\ IsPrefixOf(Keys(acts), GraduateOrder)
          /\ \A i \in DOMAIN acts : acts[i].ok
          /\ DoneOk("trial") =>
               /\ Keys(acts) = GraduateOrder
               /\ acts[3].etype = "finished"
               /\ acts[2].to \in ResolveCandidates(registry,
                                    BackendPilot(PilotIdOf(OpRun)).name,
                                    BackendPilot(PilotIdOf(OpRun)).ip)
               /\ RecOf(registry, acts[2].to).active_run = NoRun
  /\ \A r \in RunIds :
       OneTrialRun(r) =>
         LET sends == SelectSeq(log, IsSend)
             calls == SelectSeq(log, IsCall)
         IN /\ Len(sends) = 2
            /\ sends[1] = SendEv("start", "START", sends[1].to, r, 0, 0)
            /\ sends[2] = SendEv("trial", "STOP", sends[1].to, r, -1, -1)
            /\ Keys(calls) = <<"MarkRunRunning", "IncrementTrial", "AdvanceStep",
                               "CompleteSessionRun">>
            /\ \A i \in DOMAIN calls : calls[i].ok /\ calls[i].run = r
            /\ RecOf(registry, sends[1].to).active_run = NoRun

C8_Witness ==
  \E r \in RunIds :
    /\ OneTrialRun(r) /\ GraduatedOnLastStep
    /\ runStatus[r] = "completed"

(***************************************************************************)
(* C9.  StartRun sends a START with step = progress.current_step and       *)
(* current_trial = progress.current_trial when the backend holds progress  *)
(* for the run, and step 0, trial 0 when it holds none; in both cases the  *)
(* backend then reaches running.  (The claim as stated, for the statuses   *)
(* StartRun is specified for.)                                             *)
(***************************************************************************)
StartPayloadFollowsProgress ==
  \A i \in DOMAIN Seg :
    (Seg[i].ev = "send" /\ Seg[i].key = "START") =>
      LET prog == runProgress[OpRun]
      IN /\ Seg[i].step = IF prog # NoProgress THEN prog.step ELSE 0
         /\ Seg[i].trial = IF prog # NoProgress THEN prog.trial ELSE 0

C9_Stated ==
  (DoneOk("start") /\ OpStatus \in {"pending", "stopped", "error"}) =>
    /\ \E i \in DOMAIN Seg : Seg[i].ev = "send" /\ Seg[i].key = "START" /\ Seg[i].ok
    /\ StartPayloadFollowsProgress
    /\ runStatus[OpRun] = "running"

\* a run in error that holds progress was started: START was sent from the
\* progress, 200 was answered, and the row is not running
C9_Witness ==
  /\ DoneOk("start") /\ OpStatus = "error" /\ runProgress[OpRun] # NoProgress
  /\ StartPayloadFollowsProgress
  /\ \E i \in DOMAIN Seg : Seg[i].ev = "send" /\ Seg[i].key = "START" /\ Seg[i].ok
  /\ runStatus[OpRun] # "running"

(***************************************************************************)
(* C10.  On a TASK_ERROR envelope whose subject resolves to run r the      *)
(* controller sends STOP to the pilot the envelope names, the backend      *)
(* receives MarkRunError(r, "TaskError", error_message), and afterwards    *)
(* that pilot's active_run is empty in the registry and in the KV mirror.  *)
(***************************************************************************)
C10_TaskError ==
  (Done("task_error") /\ OpRun # NoRun) =>
    LET b == log[LastBegin]
    IN /\ SelectSeq(Seg, IsAct) =
            <<SendEv("task_error", "STOP", b.to, NoRun, -1, -1),
              CallEv("task_error", "MarkRunError", OpRun, "TaskError", b.emsg, TRUE)>>
       /\ LastEv.ok
       /\ runError[OpRun] = [etype |-> "TaskError", emsg |-> b.emsg]
       /\ ActiveRunEmpty(b.to)

\* the pilot that held the run reported the error, with a message
C10_Witness ==
  /\ Done("task_error") /\ OpRun # NoRun
  /\ log[LastBegin].emsg = "sensor fault" /\ log[LastBegin].to = "alpha"
  /\ OpRun \in RunIds /\ runStatus[OpRun] = "error"
  /\ "alpha" \in DOMAIN kv

(***************************************************************************)
(* C11.  A TASK_ERROR envelope without a subject, or whose subject does    *)
(* not resolve to a run (the lookup fails or finds nothing), is tolerated: *)
(* STOP is sent to the pilot, MarkRunError is not requested, the handler   *)
(* returns normally, and the pilot's active_run in the registry is empty.  *)
(***************************************************************************)
LookupFailed ==
  \E i \in DOMAIN Seg : Seg[i].ev = "lookup" /\ Seg[i].key = "GetRunBySubjectKey"

C11_UnresolvedTaskError ==
  (Done("task_error") /\ (OpRun = NoRun \/ LookupFailed)) =>
    LET b == log[LastBegin]
    IN /\ SelectSeq(Seg, IsAct) = <<SendEv("task_error", "STOP", b.to, NoRun, -1, -1)>>
       /\ LastEv.ok
       /\ RecOf(registry, b.to).active_run = NoRun

\* the lookup failed for the pilot that held a run: the registry was cleared
\* (the mirror, which this path does not touch, still names the run)
C11_Witness ==
  /\ Done("task_error") /\ LookupFailed /\ OpRun \in RunIds
  /\ log[LastBegin].to = "alpha" /\ "alpha" \in DOMAIN registry
  /\ registry["alpha"].active_run = NoRun
  /\ HashOf(kv, "alpha").active_run = OpRun

(***************************************************************************)
(* SpecGatewayFair: the gateway on its own.  Callers hand it envelopes     *)
(* (stop_run's STOP among them), the IOLoop runs the callbacks, the resend *)
(* loop scans the outbox, pilots confirm or stay silent, and a send on the *)
(* socket may fail.  The transport thread and the resend thread keep       *)
(* running, and the socket does not fail for ever for an envelope.         *)
(***************************************************************************)
InitGateway ==
  /\ mode = "gateway" /\ faults = {"send"} /\ opsLeft = 0
  /\ protoSteps = <<1>>
  /\ runStatus = [r \in RunIds |-> "running"]
  /\ runProgress = [r \in RunIds |-> NoProgress]
  /\ runError = [r \in RunIds |-> NoError]
  /\ bePilots = <<[name |-> "alpha", ip |-> "ip1"]>>
  /\ registry = Put(<<>>, "alpha", [ip |-> "ip1", state |-> "IDLE", active_run |-> NoRun])
  /\ kv = <<>>
  /\ CtlIdle /\ GwIdle /\ AuxIdle

NextGateway ==
  \/ \E to \in DOMAIN registry, key \in SendKeys, repeat \in BOOLEAN,
        norepeat \in BOOLEAN :
       ClientSend(to, key, repeat, norepeat)
  \/ \E to \in DOMAIN registry : StopRunSend(to)
  \/ LoopCallback
  \/ \E id \in MsgIds : RecvConfirm(id)
  \/ \E id \in MsgIds : Lose(id)
  \/ ScanWake \/ ScanItem \/ ScanSleep

SendSucceedsFor(id) == RunCallback(TRUE) /\ Head(cbq).id = id

GatewayFairness ==
  /\ WF_vars(ScanWake) /\ WF_vars(ScanItem) /\ WF_vars(ScanSleep)
  /\ WF_vars(LoopCallback)
  /\ \A id \in MsgIds : SF_vars(SendSucceedsFor(id))

SpecGatewayFair == InitGateway /\ [][NextGateway]_vars /\ GatewayFairness

Transmitted(id)   == \E f \in wire : f.id = id
Retransmitted(id) == \E f \in wire : f.id = id /\ f.re

StopUnanswered(id) ==
  /\ id \in DOMAIN msgs /\ msgs[id].by = "stop_run" /\ msgs[id].key = "STOP"
  /\ Transmitted(id) /\ id \notin inflight /\ ~msgs[id].confirmed

StopFollowedUp(id) ==
  id \in DOMAIN msgs /\ (msgs[id].confirmed \/ Retransmitted(id))

C6_Stated ==
  \A id \in MsgIds : StopUnanswered(id) ~> StopFollowedUp(id)

\* stop_run's STOP went out once, was lost, and is not in the outbox
C6_Witness ==
  \E id \in DOMAIN msgs :
    /\ StopUnanswered(id) /\ ~Retransmitted(id)
    /\ id \notin DOMAIN outbox /\ cbq = <<>>

(***************************************************************************)
(* SpecGatewayRecv: the gateway receiving.  Frames arrive from any         *)
(* identity with any envelope, callers hand the gateway envelopes of their *)
(* own, and the socket may refuse a CONFIRM.                               *)
(***************************************************************************)
NextGatewayRecv ==
  \/ \E ident \in Idents, env \in Envelopes, hres \in {"ok", "raise"} :
       OnRecv(ident, env, hres)
  \/ \E to \in DOMAIN registry, key \in SendKeys, repeat \in BOOLEAN,
        norepeat \in BOOLEAN :
       ClientSend(to, key, repeat, norepeat)

SpecGatewayRecv == InitGateway /\ [][NextGatewayRecv]_vars

LastConfirm == confirms[Len(confirms)]

(***************************************************************************)
(* C12.  For every received envelope that decodes, the sender the handler  *)
(* sees, and the destination of the CONFIRM reply, is the identity frame   *)
(* of the message, whatever sender the envelope claims.                    *)
(***************************************************************************)
C12_SenderIsIdentity ==
  (rx.n > 0 /\ rx.env.decodes) =>
    /\ rx.handler # "none" => rx.seen = rx.ident
    /\ rx.replied => (confirms # <<>> /\ LastConfirm.to = rx.ident)

\* an envelope claiming another sender was dispatched and confirmed
C12_Witness ==
  /\ rx.n > 0 /\ rx.env.decodes /\ rx.env.sender = "mallory" /\ rx.ident = "alpha"
  /\ rx.handler = "ok" /\ rx.seen = "alpha"
  /\ rx.replied /\ LastConfirm.to = "alpha"

(***************************************************************************)
(* C13.  For each received envelope that decodes the gateway transmits     *)
(* exactly one CONFIRM, to the sender, with the received id as value and   *)
(* NOREPEAT, if and only if the key is not CONFIRM and the envelope bears  *)
(* no NOREPEAT; with or without a handler, whether or not the handler      *)
(* raised; a CONFIRM is never answered by a CONFIRM nor put in the outbox. *)
(***************************************************************************)
ReceiveStep == rx'.n = rx.n + 1

NextGatewayLocks ==
  \/ \E to \in DOMAIN registry, key \in SendKeys, repeat \in BOOLEAN,
        norepeat \in BOOLEAN :
       LkSend(to, key, repeat, norepeat)
  \/ \E t \in Threads : LkAcquire(t)
  \/ \E t \in Threads : LkCritical(t)
  \/ LkLoopCallback
  \/ \E id \in MsgIds : LkLoopConfirm(id)
  \/ \E id \in MsgIds : Lose(id)
  \/ LkScanWake \/ LkScanItem \/ LkScanSleep

SpecGatewayLocks == InitGateway /\ [][NextGatewayLocks]_vars

(***************************************************************************)
(* C14.  A send in progress never waits for the IOLoop thread to get on    *)
(* with its work: it waits, if at all, for a thread that is inside a       *)
(* `with self._outbox_lock` block and can leave it by itself.  No thread   *)
(* that wants the lock can be left waiting with nobody able to release it. *)
(***************************************************************************)
C14_NoLockDeadlock ==
  /\ \A t \in Threads : lk.thr[t].pc = "in" <=> lk.holder = t
  /\ \A t \in Threads :
       lk.thr[t].pc = "wait" =>
         \/ ENABLED LkAcquire(t)
         \/ \E u \in Threads \ {t} : lk.holder = u /\ ENABLED LkCritical(u)

\* send and _l_confirm both wait for the lock while the resend loop holds it
C14_Witness ==
  /\ lk.thr["sender"].pc = "wait" /\ lk.thr["sender"].op = "insert"
  /\ lk.thr["loop"].pc = "wait" /\ lk.thr["loop"].op = "pop"
  /\ lk.holder = "scanner" /\ lk.thr["scanner"].op = "snapshot"

(***************************************************************************)
(* SpecIngest: the handlers that feed the two queues, with the workers     *)
(* taking from them at their own pace (the trial worker stays busy with a  *)
(* running run's event).  MaxQueue stands for the queues' maxsize.         *)
(***************************************************************************)
InitIngest ==
  /\ mode = "conc" /\ faults = {} /\ opsLeft = MaxQueue + 2
  /\ protoSteps = <<1>>
  /\ runStatus = [r \in RunIds |-> "running"]
  /\ runProgress = [r \in RunIds |-> NoProgress]
  /\ runError = [r \in RunIds |-> NoError]
  /\ bePilots = <<[name |-> "alpha", ip |-> "ip1"]>>
  /\ registry = Put(<<>>, "alpha", [ip |-> "ip1", state |-> "IDLE", active_run |-> NoRun])
  /\ kv = <<>>
  /\ CtlIdle /\ GwIdle /\ AuxIdle

NextIngest ==
  \/ \E p \in DOMAIN registry, v \in DataValues : RecvData(p, v)
  \/ \E p \in DOMAIN registry, sub \in TrialSubjects : RecvIncTrial(p, sub)
  \/ DataTake
  \/ WTake \/ WResolve

SpecIngest == InitIngest /\ [][NextIngest]_vars

(***************************************************************************)
(* C15.  The handlers feeding the data queue and the trial queue never     *)
(* block, whatever the occupancy: with room the event is appended in       *)
(* arrival order; at capacity the enqueue fails at once, the event is      *)
(* dropped, the queue is unchanged and the handler returns normally.       *)
(***************************************************************************)
HandlerReturned(op) ==
  /\ Len(log') = Len(log) + 1 /\ log'[Len(log')].ev = "end" /\ log'[Len(log')].by = op
  /\ log'[Len(log')].ok /\ pcT' = "idle"

FedOrDropped(q, qNext, op) ==
  /\ HandlerReturned(op)
  /\ IF Len(q) < MaxQueue
     THEN Len(qNext) = Len(q) + 1 /\ SubSeq(qNext, 1, Len(q)) = q
     ELSE qNext = q /\ log'[Len(log')].etype = "dropped"

C15_EnqueueNeverBlocks ==
  /\ [](pcT = "idle" /\ opsLeft > 0 =>
          /\ \A p \in Idents, sub \in TrialSubjects : ENABLED RecvIncTrial(p, sub)
          /\ \A p \in Idents, v \in DataValues : ENABLED RecvData(p, v))
  /\ [][/\ (\E p \in Idents, sub \in TrialSubjects : RecvIncTrial(p, sub))
             => FedOrDropped(trialQueue, trialQueue', "inc_trial")
        /\ (\E p \in Idents, v \in DataValues : RecvData(p, v))
             => FedOrDropped(dataQueue, dataQueue', "data")]_vars

\* the trial queue is at capacity and an event was dropped, while the data
\* queue took a message
C15_Witness ==
  /\ Len(trialQueue) = MaxQueue /\ dataQueue # <<>>
  /\ \E i, j \in DOMAIN log :
       /\ log[i].by = "inc_trial" /\ log[i].etype = "dropped"
       /\ log[j].by = "data" /\ log[j].etype = ""

(***************************************************************************)
(* SpecResolve: resolve_pilot_key on its own, over the registries of up to *)
(* three pilots and every pair of arguments ("" is None or empty).         *)
(***************************************************************************)
ResolveKeys  == {"rpi_1", "pilot_rpi_1", "cam"}
ResolveIps   == {"", "192.0.2.5", "192.0.2.9"}
ResolveNames == {"", "rpi_1", "cam", "ghost"}
Registries ==
  UNION {[K -> [ip : ResolveIps, state : {"IDLE"}, active_run : {NoRun}]] :
           K \in SUBSET ResolveKeys}

InitResolve ==
  /\ mode = "seq" /\ faults = {} /\ opsLeft = 0
  /\ protoSteps = <<1>>
  /\ runStatus = [r \in RunIds |-> "pending"]
  /\ runProgress = [r \in RunIds |-> NoProgress]
  /\ runError = [r \in RunIds |-> NoError]
  /\ bePilots = <<[name |-> "rpi_1", ip |-> "192.0.2.5"]>>
  /\ registry \in Registries
  /\ kv = <<>>
  /\ CtlIdle /\ GwIdle /\ AuxIdle

NextResolve == \E d \in ResolveNames, i \in ResolveIps : ResolvePilotKey(d, i)

SpecResolve == InitResolve /\ [][NextResolve]_vars

(***************************************************************************)
(* C16.  ResolvePilotKey(db_name, ip) returns the first match in the order *)
(* registry key db_name, key pilot_{db_name}, a key whose record has the   *)
(* ip; a name match wins over an ip match on another pilot; it fails with  *)
(* a not-found error when nothing matches, also with both arguments empty. *)
(* With registry {pilot_rpi_1: ip 192.0.2.5}, (rpi_1, null) and            *)
(* (null, 192.0.2.5) both give pilot_rpi_1.                                *)
(***************************************************************************)
C16_ResolveOrder ==
  probe.fn = "resolve_pilot_key" =>
    LET d == probe.db_name
        i == probe.ip
        direct == d # "" /\ d \in DOMAIN registry
        pref   == d # "" /\ ("pilot_" \o d) \in DOMAIN registry
        byIp   == i # "" /\ \E k \in DOMAIN registry : registry[k].ip = i
    IN /\ direct => (probe.raised = "" /\ probe.result = d)
       /\ (~direct /\ pref) => (probe.raised = "" /\ probe.result = "pilot_" \o d)
       /\ (~direct /\ ~pref /\ byIp) =>
            (probe.raised = "" /\ probe.result \in DOMAIN registry
             /\ registry[probe.result].ip = i)
       /\ (~direct /\ ~pref /\ ~byIp) => probe.raised = "KeyError"
       /\ (d = "" /\ i = "") => probe.raised = "KeyError"
       /\ (DOMAIN registry = {"pilot_rpi_1"} /\ registry["pilot_rpi_1"].ip = "192.0.2.5"
           /\ <<d, i>> \in {<<"rpi_1", "">>, <<"", "192.0.2.5">>})
            => probe.result = "pilot_rpi_1"

\* the prefixed name matched although the ip belongs to another pilot
C16_Witness ==
  /\ probe.fn = "resolve_pilot_key" /\ probe.db_name = "rpi_1" /\ probe.ip = "192.0.2.9"
  /\ DOMAIN registry = {"pilot_rpi_1", "cam"}
  /\ registry["cam"].ip = "192.0.2.9" /\ registry["pilot_rpi_1"].ip = "192.0.2.5"
  /\ probe.result = "pilot_rpi_1"

(***************************************************************************)
(* C17.  POST /runs/{id}/start and POST /runs/{id}/stop answer 200 when    *)
(* the operation succeeds, 400 for an input error, 404 when the run, the   *)
(* backend pilot or the pilot's transport identity cannot be resolved, and *)
(* 500 for every other failure.  (The claim as stated: an answer is 404    *)
(* exactly when the resolution failed, and one of the four codes always.)  *)
(***************************************************************************)
\* the run, its backend pilot or the pilot's registry key cannot be resolved
Unresolvable(r) ==
  \/ ~RunExists(r)
  \/ BackendPilot(PilotIdOf(r)).name = ""
  \/ ResolveCandidates(registry, BackendPilot(PilotIdOf(r)).name,
                       BackendPilot(PilotIdOf(r)).ip) = {}

ApiReturned == log # <<>> /\ LastEv.ev = "return" /\ LastEv.by \in {"start", "stop"}

C17_Stated ==
  ApiReturned =>
    /\ LastEv.key \in {"200", "400", "404", "500"}
    /\ LastEv.key = "200" => ~Unresolvable(LastEv.run)
    /\ Unresolvable(LastEv.run) => LastEv.key = "404"

\* POST /runs/9/stop for an id with no row has been answered 500
C17_Witness ==
  /\ ApiReturned /\ LastEv.by = "stop" /\ ~RunExists(LastEv.run)
  /\ LastEv.key = "500"

(***************************************************************************)
(* C18.  Under every sequence of StartRun, StopRun, trial/Advance          *)
(* processing and TASK_ERROR handling a run's backend status changes only  *)
(* along pending->running, pending->error, running->stopped,               *)
(* pending->stopped, running->completed, running->error and                *)
(* stopped|error->running.  (The claim as stated; the UI's re-arming of a  *)
(* row, which is no controller operation, is left out of the steps         *)
(* examined.)                                                              *)
(***************************************************************************)
PermittedEdges ==
  {<<"pending", "running">>, <<"pending", "error">>, <<"running", "stopped">>,
   <<"pending", "stopped">>, <<"running", "completed">>, <<"running", "error">>,
   <<"stopped", "running">>, <<"error", "running">>}

\* the step is one of the UI, not of the controller
UiStep == Len(log') = Len(log) + 1 /\ log'[Len(log')].by = "ui"

C18_Stated ==
  [][~UiStep => \A r \in RunIds :
        runStatus'[r] # runStatus[r] => <<runStatus[r], runStatus'[r]>> \in PermittedEdges]_vars

\* a run StopRun stopped has since been marked error by TASK_ERROR handling,
\* no backend request having come in between
C18_Witness ==
  \E i, j \in DOMAIN log :
    /\ i < j
    /\ log[i].ev = "call" /\ log[i].key = "StopSessionRun" /\ log[i].ok
    /\ log[j].ev = "call" /\ log[j].key = "MarkRunError" /\ log[j].ok
    /\ log[j].by = "task_error" /\ log[j].run = log[i].run
    /\ \A k \in (i + 1) .. (j - 1) : log[k].ev # "call"
    /\ runStatus[log[j].run] = "error"

(***************************************************************************)
(* Task payloads: _build_first_step_task, _build_step_task,                *)
(* _apply_overrides, _attach_session_context and the assembly around them  *)
(* in start_run and _advance_run_step.  A payload is a function on         *)
(* TaskKeys whose absent keys hold Absent; every value is a string.        *)
(***************************************************************************)
MaxOvKeys == 1    \* keys an overrides mapping (global, or of one step) names

ReservedKeys == {"task_type", "step_name", "pilot", "subject", "session", "step",
                 "current_trial", "run_id", "protocol_id"}
TaskKeys == ReservedKeys \cup {"reward", "subjects", "session_progress_index"}
EmptyTask == [k \in TaskKeys |-> Absent]

\* dict.update(m)
Update(task, m) == [k \in TaskKeys |-> IF m[k] # Absent THEN m[k] ELSE task[k]]

\* the run record the backend answered: GET /session-runs/{id}
RunMeta(r, ov) ==
  [id |-> ToString(r), session_id |-> ToString(SessionOf(r)),
   pilot_id |-> PilotIdOf(r), subject_key |-> SubjectKey(r), overrides |-> ov]

\* a step of the protocol: protocol["steps"][i]
StepTemplate(i, params) ==
  [task_type |-> "task" \o ToString(i), step_name |-> "stage" \o ToString(i),
   params |-> params]
ProtocolIdOf(r) == "4"     \* proto_runs[0]["protocol_id"]

\* _apply_overrides: overrides.global, then overrides.steps[step_idx]
ApplyOverrides(task, run_meta, step_idx) ==
  LET ov      == run_meta.overrides
      step_ov == IF step_idx \in DOMAIN ov.steps THEN ov.steps[step_idx] ELSE EmptyTask
  IN Update(Update(task, ov.global), step_ov)

\* _build_step_task: params, reserved keys, overrides, and the keys set again
BuildStepTask(run, step_idx, step, pilot) ==
  LET keyed(t) == [t EXCEPT !["task_type"] = step.task_type,
                            !["step_name"] = step.step_name,
                            !["pilot"] = pilot.name,
                            !["subject"] = run.subject_key,
                            !["session"] = run.session_id,
                            !["step"] = ToString(step_idx),
                            !["run_id"] = run.id,
                            !["protocol_id"] = ProtocolIdOf(run.id)]
      t1 == [keyed(Update(EmptyTask, step.params)) EXCEPT !["current_trial"] = "0"]
  IN keyed(ApplyOverrides(t1, run, step_idx))

\* _build_first_step_task: the same construction at step 0
BuildFirstStepTask(run, step, pilot) == BuildStepTask(run, 0, step, pilot)

\* _attach_session_context and the two lines after it
AttachSessionContext(task, prog) ==
  [task EXCEPT !["session_progress_index"] = prog.spi, !["subjects"] = "[subjects]"]

\* start_run step 5 and the lines up to the send: resume at the progress'
\* step and trial, or start at step 0
StartRunTask(run, prog, params, pilot) ==
  LET built == IF prog.current_step # -1
               THEN [BuildStepTask(run, prog.current_step,
                                   StepTemplate(prog.current_step, params), pilot)
                       EXCEPT !["current_trial"] = ToString(prog.current_trial)]
               ELSE [BuildFirstStepTask(run, StepTemplate(0, params), pilot)
                       EXCEPT !["current_trial"] = "0"]
  IN AttachSessionContext([built EXCEPT !["run_id"] = run.id,
                                        !["pilot"] = pilot.name,
                                        !["subject"] = run.subject_key], prog)

\* _advance_run_step 3): the task of the step the backend advanced to
AdvanceTask(run, next_step_idx, prog, params, pilot) ==
  AttachSessionContext(BuildStepTask(run, next_step_idx,
                                     StepTemplate(next_step_idx, params), pilot), prog)

\* the inputs: overrides of at most MaxOvKeys keys per mapping, step params,
\* progress rows
OvKeys == ReservedKeys \cup {"reward"}
OvMaps ==
  {[k \in TaskKeys |-> IF k \in K THEN "overridden" ELSE Absent] :
     K \in {K \in SUBSET OvKeys : Cardinality(K) <= MaxOvKeys}}
OvSteps == {<<>>} \cup {[i \in {s} |-> m] : s \in 0 .. (NSteps - 1), m \in OvMaps}
Overrides == [global : OvMaps, steps : OvSteps]
StepParams == {EmptyTask, [EmptyTask EXCEPT !["reward"] = "5"],
               [EmptyTask EXCEPT !["pilot"] = "from-params"]}
TaskProgress ==
  {[current_step |-> -1, current_trial |-> 0, spi |-> Absent]} \cup
  [current_step : 0 .. (NSteps - 1), current_trial : 0 .. MaxTrial, spi : {"1"}]

\* start_run builds the START payload of run r
BuildStart(r, ov, prog, params) ==
  /\ probe = NoCall
  /\ probe' = [fn |-> "start_run", run |-> r, overrides |-> ov,
               step |-> IF prog.current_step # -1 THEN prog.current_step ELSE 0,
               trial |-> IF prog.current_step # -1 THEN prog.current_trial ELSE 0,
               task |-> StartRunTask(RunMeta(r, ov), prog, params,
                                     BackendPilot(PilotIdOf(r)))]
  /\ UNCHANGED <<gwVars, auxVars, dataQueue, mode, faults, opsLeft, runStatus, runError,
                 runProgress, protoSteps, bePilots, registry, kv, trialQueue, log,
                 pcH, hloc, pcT, tloc, pcW, wloc>>

\* _advance_run_step builds the START payload of the next step of run r
BuildAdvance(r, ov, next_step_idx, prog, params) ==
  /\ probe = NoCall
  /\ probe' = [fn |-> "_advance_run_step", run |-> r, overrides |-> ov,
               step |-> next_step_idx, trial |-> 0,
               task |-> AdvanceTask(RunMeta(r, ov), next_step_idx, prog, params,
                                    BackendPilot(PilotIdOf(r)))]
  /\ UNCHANGED <<gwVars, auxVars, dataQueue, mode, faults, opsLeft, runStatus, runError,
                 runProgress, protoSteps, bePilots, registry, kv, trialQueue, log,
                 pcH, hloc, pcT, tloc, pcW, wloc>>

\* one backend and registry state: the payload does not depend on them
InitTask ==
  /\ InitWith("seq", {}) /\ \A r \in RunIds : Fresh(r)
  /\ protoSteps = [i \in 1 .. NSteps |-> 0] /\ registry = <<>>

NextTask ==
  \/ \E r \in RunIds, ov \in Overrides, prog \in TaskProgress, params \in StepParams :
       BuildStart(r, ov, prog, params)
  \/ \E r \in RunIds, ov \in Overrides, n \in 0 .. (NSteps - 1), prog \in TaskProgress,
        params \in StepParams :
       BuildAdvance(r, ov, n, prog, params)

SpecTask == InitTask /\ [][NextTask]_vars

(***************************************************************************)
(* C19.  Every START payload built by StartRun or by Advance has           *)
(* task_type, step_name, pilot, subject, session, step, current_trial,     *)
(* run_id and protocol_id equal to the values the controller computed from *)
(* the run, the protocol step and the progress, whatever overrides.global  *)
(* and overrides.steps[step] contain.  (The claim as stated.)              *)
(***************************************************************************)
\* the reserved keys as the controller computes them for a built payload
Computed(c) ==
  [k \in ReservedKeys |->
     CASE k = "task_type"     -> "task" \o ToString(c.step)
       [] k = "step_name"     -> "stage" \o ToString(c.step)
       [] k = "pilot"         -> BackendPilot(PilotIdOf(c.run)).name
       [] k = "subject"       -> SubjectKey(c.run)
       [] k = "session"       -> ToString(SessionOf(c.run))
       [] k = "step"          -> ToString(c.step)
       [] k = "current_trial" -> ToString(c.trial)
       [] k = "run_id"        -> ToString(c.run)
       [] k = "protocol_id"   -> ProtocolIdOf(ToString(c.run))]

C19_Stated ==
  probe.fn \in {"start_run", "_advance_run_step"} =>
    \A k \in ReservedKeys : probe.task[k] = Computed(probe)[k]

\* an Advance has built a START payload whose current_trial is the value
\* overrides.global gave, not 0
C19_Witness ==
  /\ probe.fn = "_advance_run_step"
  /\ probe.overrides.global["current_trial"] = "overridden"
  /\ probe.task["current_trial"] = "overridden"
  /\ \A k \in ReservedKeys \ {"current_trial"} : probe.task[k] = Computed(probe)[k]

(***************************************************************************)
(* SpecConc: the controller's three threads interleave: the HTTP worker's  *)
(* start_run / stop_run, the transport thread's handlers and the trial     *)
(* worker run concurrently, as the threads of OrchestratorStation do.  The  *)
(* pilot has handshaken and the protocol has NSteps steps.                 *)
(***************************************************************************)
InitConc ==
  /\ mode = "conc" /\ faults = {}
  /\ InitBackend /\ InitRegistry /\ CtlIdle /\ GwIdle /\ AuxIdle
  /\ Len(protoSteps) = NSteps /\ registry # <<>>
  /\ opsLeft = MaxOps

SpecConc == InitConc /\ [][Next]_vars

(***************************************************************************)
(* C20.  After StopRun(r) has returned successfully no START for run r is  *)
(* sent to the pilot unless StartRun(r) is invoked again, also when the    *)
(* StopRun interleaves with an Advance of r that is waiting for idle or    *)
(* pausing for hardware release.  (The claim as stated.)                   *)
(***************************************************************************)
StopReturned(i) ==
  log[i].ev = "return" /\ log[i].by = "stop" /\ log[i].key = "200"
StartSentAfter(i, j) ==
  /\ i < j /\ log[j].ev = "send" /\ log[j].key = "START" /\ log[j].ok
  /\ log[j].run = log[i].run
StartRunBetween(i, j) ==
  \E k \in (i + 1) .. (j - 1) :
    log[k].ev = "begin" /\ log[k].by = "start" /\ log[k].run = log[i].run

C20_Stated ==
  \A i, j \in DOMAIN log :
    (StopReturned(i) /\ StartSentAfter(i, j)) => StartRunBetween(i, j)

\* StopRun has answered 200 and the row is stopped; the Advance that was
\* under way has since sent the START of the next step, no StartRun having
\* been invoked
C20_Witness ==
  \E i, j \in DOMAIN log :
    /\ StopReturned(i) /\ StartSentAfter(i, j) /\ log[j].by = "trial"
    /\ \A k \in DOMAIN log : log[k].by # "start"
    /\ runStatus[log[i].run] = "stopped"

(***************************************************************************)
(* C21.  When IncrementTrial reports should_graduate and AdvanceStep       *)
(* reports finished = false with current_step = k, the trial worker acts   *)
(* in the order STOP to the run's pilot, wait-for-idle, AdvanceStep,       *)
(* hardware-release pause, START to the same pilot with step = k and       *)
(* current_trial = 0; the run's status stays running, the pilot's          *)
(* active_run is unchanged and CompleteSessionRun is not called.           *)
(***************************************************************************)
AdvanceOrder == <<"IncrementTrial", "STOP", "AdvanceStep", "START">>

\* the trial event in hand graduated and the backend moved to a next step
AdvancedToNext ==
  /\ LastBegin > 0 /\ log[LastBegin].by = "trial"
  /\ \E i \in DOMAIN Seg : Seg[i].key = "AdvanceStep" /\ Seg[i].etype = "next"

\* the worker's place between the acts: waiting for idle, pausing
Advancing == pcW \in {"adv_load", "adv_stop", "adv_wait", "adv_step", "adv_build",
                      "adv_start"}
LastActKey == LET acts == SelectSeq(Seg, IsAct) IN acts[Len(acts)].key

NewEvents == SubSeq(log', Len(log) + 1, Len(log'))

\* the step makes the backend request IncrementTrial for run r
IncrementRequested(r) ==
  \E i \in DOMAIN NewEvents :
    NewEvents[i].ev = "call" /\ NewEvents[i].key = "IncrementTrial" /\ NewEvents[i].run = r

\* the worker resolves the event in hand and finds nothing to count
ResolvesToDrop ==
  /\ pcW = "w_resolve" /\ pcW' # pcW
  /\ \/ wloc.subject = ""
     \/ RunBySubjectKey(wloc.subject) = NoRun
     \/ runStatus[RunBySubjectKey(wloc.subject)] # "running"

C22_Stated ==
  [][/\ \A r \in RunIds : IncrementRequested(r) => runStatus[r] = "running"
     /\ ResolvesToDrop =>
          /\ pcW' = "idle" /\ runProgress' = runProgress /\ runStatus' = runStatus
          /\ \A i \in DOMAIN NewEvents : ~IsAct(NewEvents[i])]_vars

\* the trial worker has incremented the trial counter of a run that StopRun
\* had marked stopped while the event was being processed
C22_Witness ==
  \E i, j \in DOMAIN log :
    /\ i < j
    /\ log[i].ev = "call" /\ log[i].key = "StopSessionRun" /\ log[i].ok
    /\ log[j].ev = "call" /\ log[j].key = "IncrementTrial" /\ log[j].ok
    /\ log[j].run = log[i].run
    /\ \A k \in i .. j : log[k].key \notin {"MarkRunRunning", "CreateSessionRun"}
    /\ runStatus[log[j].run] = "stopped"

(***************************************************************************)
(* C23.  Trial events are handled one at a time, in arrival (FIFO) order,  *)
(* by the single trial worker: the handling of one event, IncrementTrial   *)
(* and the whole Advance it may trigger, finishes before the handling of   *)
(* the next begins, so the IncrementTrial / AdvanceStep requests of a run  *)
(* never overlap; a failure while handling one event does not stop the     *)
(* worker from handling the following ones.                                *)
(***************************************************************************)
ByTrialWorker(e) == e.by = "trial"
WorkerLog == SelectSeq(log, ByTrialWorker)

\* begin, the acts of that event, end; then the next begin
OneAtATime ==
  \A i \in DOMAIN WorkerLog :
    IF WorkerLog[i].ev = "begin"
    THEN i = 1 \/ WorkerLog[i - 1].ev = "end"
    ELSE i > 1 /\ WorkerLog[i - 1].ev # "end"

C23_TrialWorkerSerial ==
  /\ [](/\ OneAtATime
        /\ (pcW = "idle") <=> (WorkerLog = <<>> \/ WorkerLog[Len(WorkerLog)].ev = "end")
        /\ (pcW = "idle" /\ trialQueue # <<>>) => ENABLED WTake)
  /\ [][trialQueue' # trialQueue =>
          \/ /\ pcW = "idle" /\ pcW' = "w_resolve"
             /\ trialQueue' = Tail(trialQueue) /\ wloc'.subject = Head(trialQueue)
          \/ /\ pcW' = pcW /\ wloc' = wloc
             /\ \E sub \in TrialSubjects : trialQueue' = Append(trialQueue, sub)]_vars

\* two events arrived, the first for a subject with no run and the second
\* for a run: the handling of the first failed and the second was counted
C23_Witness ==
  /\ Len(WorkerLog) >= 4 /\ pcW = "idle" /\ trialQueue = <<>>
  /\ WorkerLog[1].ev = "begin" /\ WorkerLog[1].run = NoRun
  /\ WorkerLog[2].ev = "end" /\ ~WorkerLog[2].ok
  /\ WorkerLog[3].ev = "begin" /\ WorkerLog[3].run \in RunIds
  /\ \E i \in DOMAIN WorkerLog :
       i > 3 /\ WorkerLog[i].key = "IncrementTrial" /\ WorkerLog[i].ok

(***************************************************************************)
(* C24.  Each trial event accepted for a running run causes exactly one    *)
(* IncrementTrial request for that run, and Advance is run for that event  *)
(* if and only if the request answered should_graduate = true.             *)
(***************************************************************************)
\* the IncrementTrial requests among the events a step adds
NewIncrements ==
  SelectSeq(NewEvents, LAMBDA e : e.ev = "call" /\ e.key = "IncrementTrial")

\* the worker's lookup answers and finds the run running
Accepts ==
  /\ pcW = "w_resolve" /\ pcW' # pcW /\ ~ResolvesToDrop
  /\ ~(Len(NewEvents) = 1 /\ NewEvents[1].ev = "end" /\ ~NewEvents[1].ok)

C24_OneIncrementPerEvent ==
  /\ [](LastBegin > 0 /\ log[LastBegin].by = "trial" =>
          LET acts == SelectSeq(Seg, IsAct)
          IN /\ Cardinality({i \in DOMAIN acts : acts[i].key = "IncrementTrial"}) <= 1
             /\ (Advancing \/ pcW \in {"adv_complete", "adv_clear", "adv_kv"}
                 \/ Len(acts) > 1) =>
                  /\ acts[1].key = "IncrementTrial" /\ acts[1].ok
                  /\ acts[1].etype = "graduate" /\ acts[1].run = OpRun)
  /\ [][/\ Accepts => (pcW' = "w_incr" /\ NewIncrements = <<>>)
        /\ (pcW' = "w_incr" /\ pcW # "w_incr") => Accepts
        /\ (pcW = "w_incr" /\ pcW' # pcW) =>
             /\ Len(NewIncrements) = 1 /\ NewIncrements[1].run = wloc.run
             /\ pcW' \in {"adv_load", "idle"}
             /\ (pcW' = "adv_load") <=>
                  (NewIncrements[1].ok /\ NewIncrements[1].etype = "graduate")
        /\ (pcW # "w_incr" \/ pcW' = pcW) => NewIncrements = <<>>]_vars

\* a trial event was counted without graduating and its handling is over:
\* one IncrementTrial, no Advance
C24_Witness ==
  /\ DoneOk("trial") /\ OpRun \in RunIds
  /\ LET acts == SelectSeq(Seg, IsAct)
     IN /\ Len(acts) = 1 /\ acts[1].key = "IncrementTrial" /\ acts[1].ok
        /\ acts[1].etype = ""
  /\ runProgress[OpRun].trial > 0

(***************************************************************************)
(* C25.  If any backend request that StartRun issues before sending START  *)
(* fails (the run, the backend pilot, the session's subject runs, the      *)
(* run's progress or the protocol), StartRun raises to the caller without  *)
(* sending START, without requesting MarkRunRunning and without changing   *)
(* the pilot's active_run.  (The claim as stated.)                         *)
(***************************************************************************)
\* the latest operation is a StartRun one of whose requests before START failed
StartLookupFailed ==
  /\ LastBegin > 0 /\ log[LastBegin].by = "start"
  /\ \/ \E i \in DOMAIN Seg : Seg[i].ev = "lookup" /\ ~Seg[i].ok
     \/ (Done("start") /\ ~LastEv.ok /\ \A i \in DOMAIN Seg : ~IsAct(Seg[i]))

C25_Stated ==
  StartLookupFailed =>
    /\ \A i \in DOMAIN Seg : ~(Seg[i].ev = "send" /\ Seg[i].key = "START")
    /\ ~Requested("MarkRunRunning")
    /\ Done("start") => ~LastEv.ok

\* the fetch of the progress failed for a run that holds progress; StartRun
\* sent START for step 0, trial 0 and answered 200
C25_Witness ==
  /\ DoneOk("start") /\ runProgress[OpRun] # NoProgress
  /\ \E i \in DOMAIN Seg : Seg[i] = LookupFailEv("start", "GetRunWithProgress")
  /\ \E i \in DOMAIN Seg :
       Seg[i].ev = "send" /\ Seg[i].key = "START" /\ Seg[i].ok
       /\ Seg[i].step = 0 /\ Seg[i].trial = 0

(***************************************************************************)
(* C26.  If START was sent and the MarkRunRunning request that follows     *)
(* fails, StartRun still completes without raising, records active_run for *)
(* the pilot in the registry and in the KV mirror, and sends no STOP to    *)
(* undo the pilot's state.                                                 *)
(***************************************************************************)
\* the latest operation is a StartRun whose MarkRunRunning request failed
MarkRunningFailed ==
  /\ LastBegin > 0 /\ log[LastBegin].by = "start"
  /\ \E i \in DOMAIN Seg :
       Seg[i].ev = "call" /\ Seg[i].key = "MarkRunRunning" /\ ~Seg[i].ok

C26_AdvisoryMarkRunning ==
  MarkRunningFailed =>
    /\ \A i \in DOMAIN Seg : ~(Seg[i].ev = "send" /\ Seg[i].key = "STOP")
    /\ \E i \in DOMAIN Seg : Seg[i].ev = "send" /\ Seg[i].key = "START" /\ Seg[i].ok
    /\ pcH \in {"start_set", "start_kv", "idle"}
    /\ Done("start") =>
         /\ LastEv = RetEv("start", OpRun, 200)
         /\ \A p \in OpPilots :
              /\ RecOf(registry, p).active_run = OpRun
              /\ HashOf(kv, p).active_run = OpRun

\* the backend was unreachable for MarkRunRunning on a pending run: 200 was
\* answered, the row is still pending and the pilot holds the run
C26_Witness ==
  /\ MarkRunningFailed /\ DoneOk("start") /\ OpStatus = "pending"
  /\ runStatus[OpRun] = "pending"
  /\ \E p \in OpPilots : RecOf(registry, p).active_run = OpRun

(***************************************************************************)
(* C27.  Once the CONFIRM for outbox envelope m has been handled, m is     *)
(* absent from the outbox in every later state and is never transmitted    *)
(* again, also when a retransmission of m had been scheduled by the resend *)
(* loop before the CONFIRM arrived.  (The claim as stated.)                *)
(***************************************************************************)
\* the step puts envelope id on the wire
Transmits(id) == cbq # <<>> /\ Head(cbq).id = id /\ cbq' = Tail(cbq) /\ id \in inflight'

C27_Stated ==
  [][\A id \in DOMAIN msgs :
       msgs[id].confirmed => (id \notin DOMAIN outbox' /\ ~Transmits(id))]_vars

\* the envelope was confirmed and taken out of the outbox; the _resend posted
\* before that has since run, sent it again and put it back
C27_Witness ==
  \E id \in DOMAIN msgs :
    /\ msgs[id].confirmed /\ Retransmitted(id)
    /\ id \in DOMAIN outbox /\ id \in inflight

(***************************************************************************)
(* C28.  In every interleaving of the resend loop and the transport        *)
(* thread an outbox envelope is retransmitted only when its entry is older *)
(* than twice the resend interval, each retransmission decrements its ttl  *)
(* by exactly one and refreshes its first-sent stamp, its ttl never        *)
(* becomes negative, and the retransmissions never exceed its initial ttl. *)
(* (The claim as stated.)                                                  *)
(***************************************************************************)
\* the step is a _resend of envelope id whose send_multipart succeeded
Resends(id) ==
  /\ cbq # <<>> /\ Head(cbq).id = id /\ Head(cbq).kind = "resend"
  /\ cbq' = Tail(cbq) /\ msgs'[id].failed = msgs[id].failed
  /\ msgs'[id].ttl # msgs[id].ttl \/ id \in inflight' \ inflight

C28_Stated ==
  [][\A id \in DOMAIN msgs :
       /\ msgs'[id].ttl >= 0 /\ msgs'[id].ttl <= InitialTtl
       /\ msgs'[id].ttl # msgs[id].ttl => Resends(id)
       /\ Resends(id) =>
            /\ id \in DOMAIN outbox /\ outbox[id].age >= 2
            /\ msgs'[id].ttl = msgs[id].ttl - 1
            /\ outbox'[id].age <= Head(cbq).lag]_vars

\* an envelope has been retransmitted more often than its initial ttl
C28_Witness ==
  \E id \in DOMAIN msgs : msgs[id].ttl < 0 /\ Retransmitted(id)

(***************************************************************************)
(* C29.  No failure while handling a received message stops the transport  *)
(* loop: an undecodable frame, a message of fewer than two frames, a key   *)
(* with no handler, a handler that raises and a failing CONFIRM            *)
(* transmission are each contained, and the gateway goes on to dispatch    *)
(* and confirm the envelopes that follow.                                  *)
(***************************************************************************)
FailureKinds == {"short", "undecodable", "no handler", "handler raised", "confirm failed"}

\* what _on_recv does with an envelope, whatever came before it
Dispatched(e) == e.frames >= 2 /\ e.decodes /\ e.key \in Listens

C29_ReceiveContained ==
  /\ [](/\ ~rx.escaped /\ rx.contained \subseteq FailureKinds
        /\ rx.n < MaxRecv =>
             \A ident \in Idents, env \in Envelopes, hres \in {"ok", "raise"} :
               ENABLED OnRecv(ident, env, hres))
  /\ [][ReceiveStep =>
          /\ (rx'.handler # "none") <=> Dispatched(rx'.env)
          /\ rx'.replied <=> (rx'.env.frames >= 2 /\ rx'.env.decodes
                               /\ ShouldConfirm(rx'.env))
          /\ rx'.replied => Len(confirms') = Len(confirms) + 1]_vars

\* after a reception whose handler raised and whose CONFIRM the socket
\* refused, the next envelope was dispatched and confirmed
C29_Witness ==
  /\ rx.n = 2 /\ {"handler raised", "confirm failed"} \subseteq rx.contained
  /\ Len(confirms) = 2 /\ ~confirms[1].ok /\ confirms[2].ok
  /\ rx.handler = "ok" /\ rx.replied /\ rx.env.key = "HANDSHAKE"

(***************************************************************************)
(* C30.  No synchronous backend HTTP call is ever executed on the          *)
(* gateway's transport thread: every handler the gateway invokes that      *)
(* needs the backend (HANDSHAKE, INC_TRIAL_COUNTER, TASK_ERROR) hands that *)
(* work to a worker thread, so the transport thread can keep receiving and *)
(* confirming envelopes while a backend call is in progress.  (The claim   *)
(* as stated.)                                                             *)
(***************************************************************************)
\* the handlers _on_recv invokes, i.e. those that run on the transport thread
TransportHandlers == {"handshake", "state", "ping", "data", "inc_trial", "task_error"}

\* the step is taken by a handler running on the transport thread
OnTransportThread ==
  \E i \in DOMAIN NewEvents : NewEvents[i].by \in TransportHandlers

\* the step performs a request to the backend: one the history records, or
\* one seen by the rows it writes
BackendRequest ==
  \/ \E i \in DOMAIN NewEvents : NewEvents[i].ev \in {"call", "lookup"}
  \/ bePilots' # bePilots \/ runStatus' # runStatus \/ runError' # runError
  \/ runProgress' # runProgress

C30_Stated == [][OnTransportThread => ~BackendRequest]_vars

\* on_task_error has posted MarkRunError from the transport thread and has
\* not returned yet: no envelope can be received until it does
C30_Witness ==
  /\ mode = "conc" /\ pcT = "te_clear" /\ opsLeft > 0
  /\ Len(log) > 0 /\ log[Len(log)].by = "task_error"
  /\ log[Len(log)].ev = "call" /\ log[Len(log)].key = "MarkRunError"
  /\ ~ENABLED (\E p \in Idents : RecvPing(p))

(***************************************************************************)
(* SpecSendOrder: two threads call send() for either pilot, statement by   *)
(* statement, while the IOLoop runs the callbacks, receives a handshake    *)
(* and confirms it.                                                        *)
(***************************************************************************)
NextSendOrder ==
  \/ \E t \in Callers, to \in Idents, key \in {"STOP"}, repeat \in BOOLEAN :
       SndCall(t, to, key, repeat)
  \/ \E t \in Callers : SndPrepare(t)
  \/ \E t \in Callers : SndPost(t)
  \/ \E t \in Callers : SndReturn(t)
  \/ SndLoopCallback
  \/ \E ident \in DOMAIN registry : SndOnRecv(ident)

SpecSendOrder == InitGateway /\ [][NextSendOrder]_vars

(***************************************************************************)
(* C31.  For any single pilot, envelopes are put on the wire in the order  *)
(* they were handed to send: if a send call to pilot p returns before      *)
(* another send call to p begins, from the same or another thread, the     *)
(* IOLoop hands the first envelope to the socket before the second.        *)
(***************************************************************************)
\* the entry into send() of the call that took the id at position k
CallOf(k) ==
  CHOOSE c \in 1 .. k :
    /\ txlog[c].ev = "call" /\ txlog[c].thr = txlog[k].thr
    /\ \A d \in (c + 1) .. k : ~(txlog[d].ev = "call" /\ txlog[d].thr = txlog[k].thr)

\* the call that returned at i was over before the call that took its id at k began
ReturnedBefore(i, k) ==
  /\ txlog[i].ev = "ret" /\ txlog[k].ev = "id" /\ txlog[k].thr \in Callers
  /\ txlog[i].to = txlog[k].to /\ i < CallOf(k)

IdsTaken == SelectSeq(txlog, LAMBDA e : e.ev = "id")

C32_UniqueIds ==
  /\ \A i, j \in DOMAIN IdsTaken : i # j => IdsTaken[i].id # IdsTaken[j].id
  /\ \A i \in DOMAIN IdsTaken : \E n \in 0 .. (gwCounter - 1) : IdsTaken[i].id = IdText(n)
  /\ \A k \in DOMAIN confirms :
       \E i \in DOMAIN IdsTaken :
         IdsTaken[i].thr = "loop" /\ IdsTaken[i].id = IdText(confirms[k].id)
  /\ \A a \in DOMAIN outbox :
       Cardinality({i \in DOMAIN IdsTaken : IdsTaken[i].id = IdText(a)}) = 1

\* both callers are inside send() with their ids taken, a CONFIRM was built
\* between the two, and nothing has been posted yet
C32_Witness ==
  /\ \A t \in Callers : snd[t].pc = "post"
  /\ Len(IdsTaken) = 3 /\ IdsTaken[2].thr = "loop"
  /\ IdsTaken[1].thr # IdsTaken[3].thr /\ confirms # <<>>

(***************************************************************************)
(* C33.  When a STATE envelope with value v arrives from pilot p, the      *)
(* registry afterwards has state(p) = v and a refreshed last_seen(p) while *)
(* active_run(p) is unchanged; a PING from p refreshes last_seen(p) and    *)
(* changes nothing else in the record.  (The claim as stated.)             *)
(***************************************************************************)
\* the step is the handling of an envelope of that kind
Handles(op) ==
  /\ Len(log') = Len(log) + 1
  /\ log'[Len(log')].ev = "end" /\ log'[Len(log')].by = op

C33_Stated ==
  [][LET e == log'[Len(log')]
     IN /\ Handles("state") =>
             /\ RecOf(registry', e.key).state = e.etype
             /\ lastSeen' = Refresh(lastSeen, e.key)
             /\ RecOf(registry', e.key).active_run = RecOf(registry, e.key).active_run
        /\ Handles("ping") =>
             /\ lastSeen' = Refresh(lastSeen, e.key)
             /\ RecOf(registry', e.key) = RecOf(registry, e.key)]_vars

\* alpha, declared IDLE in the registry, has reported STATE RUNNING: the
\* mirror was touched, the record still says IDLE and the stamp is the old one
C33_Witness ==
  /\ Len(log) > 0 /\ LastEv = HandledEv("state", "alpha", "alpha", "RUNNING")
  /\ "alpha" \in DOMAIN registry /\ registry["alpha"].state = "IDLE"
  /\ lastSeen["alpha"] = 0 /\ "alpha" \in DOMAIN kv

(***************************************************************************)
(* SpecWaitFair: the trial worker's Advance of a running run while the     *)
(* pilot, declared IDLE or RUNNING in the registry, goes on reporting      *)
(* STATE and HANDSHAKE.  The worker thread keeps running and its clock     *)
(* advances, so a wait that can end does end.                              *)
(***************************************************************************)
InitWait ==
  /\ mode = "conc" /\ faults = {}
  /\ InitBackend /\ \A r \in RunIds : runStatus[r] = "running"
  /\ \E st \in StateValues, r \in RunIds :
       /\ registry = Put(<<>>, "alpha", [ip |-> "ip1", state |-> st, active_run |-> r])
       /\ kv = Put(<<>>, "alpha", [state |-> "RUNNING", active_run |-> r])
  /\ CtlIdle /\ GwIdle /\ AuxIdle
  /\ opsLeft = MaxOps

StateReports ==
  [pilot : {Absent}, ip : {Absent}, state : StateValues, active_run : {AbsentRun}]

NextWait ==
  \/ \E p \in Idents, sub \in TrialSubjects : RecvIncTrial(p, sub)
  \/ WTake \/ WResolve \/ WIncr
  \/ AdvLoad \/ AdvStop \/ AdvWait \/ AdvStep \/ AdvComplete \/ AdvClear \/ AdvKv
  \/ AdvBuild \/ AdvStart
  \/ \E p \in Idents, v \in StateValues : RecvState(p, v)
  \/ \E p \in Idents, h \in StateReports : RecvHandshake(p, h)

SpecWaitFair == InitWait /\ [][NextWait]_vars /\ WF_vars(AdvWait) /\ WF_vars(AdvStep)

(***************************************************************************)
(* C34.  After Advance sends STOP, its wait ends as soon as the pilot's    *)
(* declared state in the registry is IDLE (for example after the pilot     *)
(* reports STATE IDLE) and otherwise ends when the timeout elapses; in     *)
(* both cases the wait terminates and Advance goes on to call AdvanceStep, *)
(* even for a pilot that never goes idle.  (The claim as stated.)          *)
(***************************************************************************)
\* the wait ends: either the registry says IDLE or the timeout has elapsed
WaitEndsWell ==
  (pcW = "adv_wait" /\ pcW' # "adv_wait") =>
    /\ pcW' = "adv_step"
    /\ wloc'.err # "timeout" => GetPilot(registry, wloc.pilot).state = "IDLE"

\* the waited-for pilot reports STATE IDLE: the registry then declares it IDLE
IdleReportEndsWait ==
  (pcW = "adv_wait" /\ Handles("state") /\ log'[Len(log')].key = wloc.pilot
     /\ log'[Len(log')].etype = "IDLE") =>
    /\ GetPilot(registry', wloc.pilot).state = "IDLE"

\* after the wait the worker requests AdvanceStep
GoesOnToAdvance ==
  (pcW = "adv_step" /\ pcW' # "adv_step") =>
    \E i \in DOMAIN NewEvents :
      NewEvents[i].ev = "call" /\ NewEvents[i].key = "AdvanceStep"

C34_Stated ==
  /\ [][WaitEndsWell /\ IdleReportEndsWait /\ GoesOnToAdvance]_vars
  /\ (pcW = "adv_wait") ~> (pcW = "adv_step")
  /\ (pcW = "adv_step") ~> (pcW \notin {"adv_wait", "adv_step"})

\* the pilot, declared RUNNING, reported STATE IDLE while Advance waited; the
\* registry still says RUNNING and the wait ended by timeout
C34_Witness ==
  /\ pcW = "adv_step" /\ wloc.err = "timeout" /\ wloc.pilot = "alpha"
  /\ LastEv = HandledEv("state", "alpha", "alpha", "IDLE")
  /\ log[Len(log) - 1] = SendEv("trial", "STOP", "alpha", wloc.run, -1, -1)
  /\ registry["alpha"].state = "RUNNING"

(***************************************************************************)
(* C35.  A pilot identity exists in the registry only if a HANDSHAKE has   *)
(* been recorded for it, and once present it is never removed; no other    *)
(* operation (STATE, TASK_ERROR handling, StartRun, StopRun, SetActiveRun) *)
(* creates a record for an identity that never handshook.  (The claim as   *)
(* stated.)                                                                *)
(***************************************************************************)
C35_Stated ==
  [][/\ DOMAIN registry \subseteq DOMAIN registry'
     /\ \A p \in DOMAIN registry' \ DOMAIN registry :
          Handles("handshake") /\ log'[Len(log')].to = p]_vars

\* beta never handshook; a TASK_ERROR from it has been handled and it has a
\* record, which Snapshot lists and IsConnected reports present
C35_Witness ==
  /\ "beta" \in DOMAIN registry /\ Done("task_error")
  /\ log[LastBegin].key = "beta"
  /\ \A i \in DOMAIN log : ~(log[i].by = "handshake" /\ log[i].to = "beta")

(***************************************************************************)
(* C36.  The registry key under which a HANDSHAKE is recorded, the key to  *)
(* which PING, START and STOP are later addressed, is the transport        *)
(* identity (first frame) of the peer that sent the handshake, whatever    *)
(* `pilot` value the payload claims; likewise the STOP triggered by a      *)
(* TASK_ERROR goes to the transport identity of the peer that reported it. *)
(* (The claim as stated.)                                                  *)
(***************************************************************************)
\* the step takes up a TASK_ERROR envelope
TakesUpTaskError ==
  NewEvents # <<>> /\ NewEvents[1].ev = "begin" /\ NewEvents[1].by = "task_error"

C36_Stated ==
  [][/\ Handles("handshake") =>
          LET e == log'[Len(log')]
          IN /\ e.to = e.key /\ e.key \in DOMAIN registry'
             /\ \A p \in DOMAIN registry \ {e.key} : registry'[p] = registry[p]
     /\ TakesUpTaskError =>
          \A i \in DOMAIN NewEvents :
            NewEvents[i].ev = "send" => NewEvents[i].to = NewEvents[1].key]_vars

\* beta sent a handshake naming alpha with another state: alpha's record was
\* rewritten and beta has none
C36_Witness ==
  /\ Len(log) > 0 /\ LastEv = HandledEv("handshake", "beta", "alpha", "")
  /\ "beta" \notin DOMAIN registry /\ "alpha" \in DOMAIN registry
  /\ registry["alpha"].ip = "ip1" /\ registry["alpha"].active_run = NoRun

(***************************************************************************)
(* SpecKvFault: the controller, one operation at a time, over a KV store   *)
(* whose writes may raise.                                                 *)
(***************************************************************************)
InitKvFault == InitWith("seq", {"kv"})

SpecKvFault == InitKvFault /\ [][Next]_vars

(***************************************************************************)
(* C37.  A failure of any KV-store write (touch, set or delete of          *)
(* active_run) never prevents or aborts a state transition: StartRun,      *)
(* StopRun, Advance and the HANDSHAKE, STATE, PING and TASK_ERROR handlers *)
(* perform the same registry updates, backend calls and envelope sends,    *)
(* and report the same outcome to their caller, whether the KV write       *)
(* succeeds or raises.                                                     *)
(***************************************************************************)
\* everything but the mirror that the operations act on
Transitions == <<registry, runStatus, runError, runProgress, bePilots, lastSeen>>

\* the closing mirror write of an operation: nothing else changes and the
\* operation reports what it had decided before the write
ClosingWrite ==
  /\ (pcH = "start_kv" /\ pcH' = "idle") =>
       NewEvents = <<RetEv("start", hloc.run, 200)>> /\ UNCHANGED Transitions
  /\ (pcH = "stop_kv" /\ pcH' = "idle") =>
       NewEvents = <<RetEv("stop", hloc.run, 200)>> /\ UNCHANGED Transitions
  /\ (pcH = "fail_kv" /\ pcH' = "idle") =>
       /\ NewEvents = <<RetEv(hloc.op, hloc.run, ApiAnswer(hloc.err))>>
       /\ UNCHANGED Transitions
  /\ (pcT = "te_kv" /\ pcT' = "idle") =>
       /\ NewEvents = <<EndEv("task_error", tloc.pilot, tloc.run, TRUE)>>
       /\ UNCHANGED Transitions
  /\ (pcW = "adv_kv" /\ pcW' = "idle") =>
       /\ NewEvents = <<EndEv("trial", wloc.pilot, wloc.run, TRUE)>>
       /\ UNCHANGED Transitions

\* the touch that opens on_handshake, on_state and on_ping: the handler goes
\* on and returns normally
OpeningTouch ==
  /\ Handles("handshake") =>
       LET e == log'[Len(log')]
       IN /\ e.ok /\ e.to \in DOMAIN registry'
          /\ lastSeen' = Refresh(lastSeen, e.to)
  /\ (Handles("state") \/ Handles("ping")) =>
       log'[Len(log')].ok /\ UNCHANGED Transitions

C37_KvAdvisory == [][ClosingWrite /\ OpeningTouch]_vars

\* StartRun answered 200 and the registry holds the run, though the write
\* of active_run to the mirror raised
C37_Witness ==
  /\ DoneOk("start") /\ OpStatus = "pending"
  /\ \E p \in DOMAIN registry :
       registry[p].active_run = OpRun /\ HashOf(kv, p).active_run = NoRun
  /\ runStatus[OpRun] = "running"

(***************************************************************************)
(* C38.  Whenever no controller operation is in progress and every KV      *)
(* write has succeeded, the KV mirror agrees with the registry for every   *)
(* pilot: the hash has an active_run field if and only if the registry's   *)
(* active_run is non-empty, both name the same run, and the mirrored state *)
(* is RUNNING exactly when active_run is present, after any sequence of    *)
(* StartRun, StopRun, Advance and TASK_ERROR handling.  (The claim as      *)
(* stated, for the pilots whose hash one of these operations has written.) *)
(***************************************************************************)
\* only the operations the claim is about have run
OnlyRunOperations ==
  \A i \in DOMAIN log : log[i].by \in {"start", "stop", "inc_trial", "trial", "task_error"}

MirrorAgrees(p) ==
  /\ HashOf(kv, p).active_run = RecOf(registry, p).active_run
  /\ HashOf(kv, p).state = "RUNNING" <=> RecOf(registry, p).active_run # NoRun
  /\ (p \in DOMAIN kv /\ kv[p].state # "RUNNING") => kv[p].state = "IDLE"

C38_Stated ==
  (AllIdle /\ OnlyRunOperations) => \A p \in Idents : MirrorAgrees(p)

\* a TASK_ERROR without a usable subject from the pilot that holds a run:
\* the registry was cleared, the mirror still names the run and says RUNNING
C38_Witness ==
  /\ AllIdle /\ OnlyRunOperations /\ Len(log) > 0 /\ LastEv.by = "task_error"
  /\ "alpha" \in DOMAIN kv /\ kv["alpha"].state = "RUNNING"
  /\ kv["alpha"].active_run \in RunIds
  /\ registry["alpha"].active_run = NoRun

(***************************************************************************)
(* ElasticSearchDataHandler (the per-subject sink handler): one object is  *)
(* a record, its worker threads a sequence.  save, prepare_run and         *)
(* stop_run each run inside self._lock, so each is one step.               *)
(***************************************************************************)
NumWorkers   == 2   \* num_workers, the constructor's default
MaxSinkCalls == 5   \* prepare_run / save / stop_run calls per behaviour

\* what the handler's data_queue holds: an event, or SENTINEL
Item(data) == [sentinel |-> FALSE, data |-> data]
SENTINEL   == [sentinel |-> TRUE, data |-> NoData]
NewThread  == [st |-> "get", sentinels |-> 0]

\* __init__: not running, no threads, an empty unbounded queue
NewSink == [running |-> FALSE, queue |-> <<>>, threads |-> 0, workers |-> <<>>,
            indexed |-> 0]

\* prepare_run: nothing if already running; else running = True,
\* self.threads = [] and num_workers fresh threads started and appended
PrepareRun(sk) ==
  IF sk.running THEN sk
  ELSE [sk EXCEPT !.running = TRUE, !.threads = NumWorkers,
                  !.workers = @ \o [k \in 1..NumWorkers |-> NewThread]]

\* Variant of StopRun that enqueues a single SENTINEL whatever the number of
\* threads: C40 does not hold of it.
StopRunOneSentinel(sk) ==
  IF ~sk.running THEN sk
  ELSE [sk EXCEPT !.running = FALSE, !.queue = Append(@, SENTINEL)]

\* stop_run: nothing if not running; else running = False and one SENTINEL
\* per element of self.threads; no join
StopRun(sk) ==
  IF ~sk.running THEN sk
  ELSE [sk EXCEPT !.running = FALSE,
                  !.queue = @ \o [k \in 1..sk.threads |-> SENTINEL]]

\* save: RuntimeError if not running, else data_queue.put(data)
Save(sk, data) ==
  IF ~sk.running THEN [sink |-> sk, raised |-> TRUE]
  ELSE [sink |-> [sk EXCEPT !.queue = Append(@, Item(data))], raised |-> FALSE]

SinkEv(op, h, data, raised, queued) ==
  [op |-> op, h |-> h, data |-> data, raised |-> raised, queued |-> queued]

SinkRest == <<ctlVars, gwVars, sndVars, lastSeen, dw, subjHandlers>>

\* ElasticSearchDataHandler(...)
SinkCreate ==
  /\ sinks = <<>>
  /\ sinks' = <<NewSink>>
  /\ UNCHANGED <<SinkRest, sinkLog>>

SinkPrepare(h) ==
  /\ h \in DOMAIN sinks /\ Len(sinkLog) < MaxSinkCalls
  /\ sinks' = [sinks EXCEPT ![h] = PrepareRun(@)]
  /\ sinkLog' = Append(sinkLog, SinkEv("prepare", h, NoData, FALSE, 0))
  /\ UNCHANGED SinkRest

SinkSave(h, data) ==
  /\ h \in DOMAIN sinks /\ Len(sinkLog) < MaxSinkCalls
  /\ LET r == Save(sinks[h], data)
     IN /\ sinks' = [sinks EXCEPT ![h] = r.sink]
        /\ sinkLog' = Append(sinkLog, SinkEv("save", h, data, r.raised,
                                             Len(r.sink.queue) - Len(sinks[h].queue)))
  /\ UNCHANGED SinkRest

SinkStop(h) ==
  /\ h \in DOMAIN sinks /\ Len(sinkLog) < MaxSinkCalls
  /\ LET sk == StopRun(sinks[h])
     IN /\ sinks' = [sinks EXCEPT ![h] = sk]
        /\ sinkLog' = Append(sinkLog, SinkEv("stop", h, NoData, FALSE,
                                             Len(sk.queue) - Len(sinks[h].queue)))
  /\ UNCHANGED SinkRest

\* data_thread, one turn of its loop: data_queue.get() blocks on an empty
\* queue; SENTINEL breaks the loop; anything else goes to process_data, which
\* indexes it only while running
DataThread(h, t) ==
  /\ h \in DOMAIN sinks /\ t \in DOMAIN sinks[h].workers
  /\ sinks[h].workers[t].st = "get" /\ sinks[h].queue # <<>>
  /\ LET sk == sinks[h]
         it == Head(sk.queue)
     IN sinks' = [sinks EXCEPT ![h] =
          IF it.sentinel
          THEN [sk EXCEPT !.queue = Tail(@),
                          !.workers[t] = [st |-> "exited", sentinels |-> @.sentinels + 1]]
          ELSE [sk EXCEPT !.queue = Tail(@),
                          !.indexed = IF sk.running THEN @ + 1 ELSE @]]
  /\ UNCHANGED <<SinkRest, sinkLog>>

(***************************************************************************)
(* _data_worker / _handle_data, statement by statement: the dictionary     *)
(* subjects_data_handlers is read and written without a lock by every      *)
(* data worker.                                                            *)
(***************************************************************************)
DataEvents == {[subject |-> "s1", n |-> 1], [subject |-> "s1", n |-> 2],
               [subject |-> "s2", n |-> 1], [subject |-> "", n |-> 1]}

DwRest == <<gwVars, sndVars, lastSeen, probe, mode, faults, opsLeft, runStatus, runError,
            runProgress, protoSteps, bePilots, registry, kv, trialQueue, log, pcH,
            hloc, pcT, tloc, pcW, wloc>>

\* value = self.data_queue.get(); subject = value.get("subject"); return
\* if there is none
DwGet(w) ==
  /\ dw[w].pc = "get" /\ dataQueue # <<>>
  /\ dataQueue' = Tail(dataQueue)
  /\ dw' = [dw EXCEPT ![w] = [pc |-> IF Head(dataQueue).subject = "" THEN "get"
                                     ELSE "lookup",
                              value |-> Head(dataQueue), handler |-> 0]]
  /\ UNCHANGED <<DwRest, subjHandlers, sinks, sinkLog>>

\* handler = self.subjects_data_handlers.get(subject)
DwLookup(w) ==
  /\ dw[w].pc = "lookup"
  /\ dw' = [dw EXCEPT ![w] =
              IF dw[w].value.subject \in DOMAIN subjHandlers
              THEN [@ EXCEPT !.pc = "save",
                             !.handler = subjHandlers[dw[w].value.subject]]
              ELSE [@ EXCEPT !.pc = "create"]]
  /\ UNCHANGED <<DwRest, dataQueue, subjHandlers, sinks, sinkLog>>

\* handler = ElasticSearchDataHandler(client=...); handler.prepare_run()
DwCreate(w) ==
  /\ dw[w].pc = "create"
  /\ sinks' = Append(sinks, PrepareRun(NewSink))
  /\ sinkLog' = Append(sinkLog, SinkEv("prepare", Len(sinks) + 1, dw[w].value, FALSE, 0))
  /\ dw' = [dw EXCEPT ![w].pc = "store", ![w].handler = Len(sinks) + 1]
  /\ UNCHANGED <<DwRest, dataQueue, subjHandlers>>

\* self.subjects_data_handlers[subject] = handler
DwStore(w) ==
  /\ dw[w].pc = "store"
  /\ subjHandlers' = Put(subjHandlers, dw[w].value.subject, dw[w].handler)
  /\ dw' = [dw EXCEPT ![w].pc = "save"]
  /\ UNCHANGED <<DwRest, dataQueue, sinks, sinkLog>>

\* handler.save(value); an exception is logged by _data_worker; task_done()
DwSave(w) ==
  /\ dw[w].pc = "save"
  /\ LET h == dw[w].handler
         r == Save(sinks[h], dw[w].value)
     IN /\ sinks' = [sinks EXCEPT ![h] = r.sink]
        /\ sinkLog' = Append(sinkLog, SinkEv("save", h, dw[w].value, r.raised,
                                             Len(r.sink.queue) - Len(sinks[h].queue)))
  /\ dw' = [dw EXCEPT ![w] = NoWork]
  /\ UNCHANGED <<DwRest, dataQueue, subjHandlers>>

\* DATA events arrive from a connected pilot while the data workers and the
\* handlers' threads run
NextDataWorkers ==
  \/ \E p \in DOMAIN registry, v \in DataEvents : RecvData(p, v)
  \/ \E w \in DataWorkers : DwGet(w)
  \/ \E w \in DataWorkers : DwLookup(w)
  \/ \E w \in DataWorkers : DwCreate(w)
  \/ \E w \in DataWorkers : DwStore(w)
  \/ \E w \in DataWorkers : DwSave(w)
  \/ \E h \in DOMAIN sinks : \E t \in DOMAIN sinks[h].workers : DataThread(h, t)

SpecDataWorkers == InitIngest /\ [][NextDataWorkers]_vars

(***************************************************************************)
(* C39.  For every subject at most one sink handler is ever created and    *)
(* prepared, and every event of that subject is forwarded to that same     *)
(* handler, also when several data workers process the first events of     *)
(* the same subject at the same time.  (The claim as stated.)              *)
(***************************************************************************)
PreparedFor(subject) ==
  {sinkLog[i].h : i \in {j \in DOMAIN sinkLog : /\ sinkLog[j].op = "prepare"
                                                /\ sinkLog[j].data.subject = subject}}
ForwardedTo(subject) ==
  {sinkLog[i].h : i \in {j \in DOMAIN sinkLog : /\ sinkLog[j].op = "save"
                                                /\ sinkLog[j].data.subject = subject}}

C39_Stated ==
  \A e \in DataEvents :
    /\ Cardinality(PreparedFor(e.subject)) <= 1
    /\ Cardinality(ForwardedTo(e.subject)) <= 1

\* two workers took the first two events of s1 at the same time: each made
\* and prepared a handler, and each event went to a different one
C39_Witness ==
  /\ PreparedFor("s1") = {1, 2}
  /\ ForwardedTo("s1") = {1, 2}
  /\ \A w \in DataWorkers : dw[w] = NoWork
  /\ \A h \in DOMAIN sinks : sinks[h].running

(***************************************************************************)
(* One sink handler on its own: constructed, then prepare_run, save and    *)
(* stop_run called in any order while its worker threads run.  The threads *)
(* are daemon threads of the interpreter: one that can take an item from   *)
(* the queue eventually does.                                              *)
(***************************************************************************)
SaveInputs == {[subject |-> "s1", n |-> 1], [subject |-> "s1", n |-> 2]}

NextSink ==
  \/ SinkCreate
  \/ SinkPrepare(1)
  \/ \E v \in SaveInputs : SinkSave(1, v)
  \/ SinkStop(1)
  \/ \E t \in 1..(NumWorkers * MaxSinkCalls) : DataThread(1, t)

SpecSinkFair ==
  /\ InitIngest /\ [][NextSink]_vars
  /\ \A t \in 1..(NumWorkers * MaxSinkCalls) : WF_vars(DataThread(1, t))

(***************************************************************************)
(* C40.  stop_run on a prepared handler with N workers returns without     *)
(* waiting for them and enqueues exactly N sentinels; each worker consumes *)
(* exactly one sentinel and exits on it, so N worker threads eventually    *)
(* terminate for every stop_run; and every save made while running is      *)
(* false (before the first prepare_run, and from the moment stop_run has   *)
(* cleared it) fails with not-running and enqueues nothing.                *)
(***************************************************************************)
Sink == sinks[1]
LastCall == sinkLog'[Len(sinkLog')]
Called(op) == Len(sinkLog') = Len(sinkLog) + 1 /\ LastCall.op = op

\* stop_run calls that found the handler running, and threads that have left
StopsDone == Cardinality({j \in DOMAIN sinkLog : sinkLog[j].op = "stop" /\ sinkLog[j].queued > 0})
Exited ==
  IF sinks = <<>> THEN 0
  ELSE Cardinality({t \in DOMAIN Sink.workers : Sink.workers[t].st = "exited"})

StopEnqueuesN ==
  (Called("stop") /\ Sink.running) =>
     /\ ~Sink'.running
     /\ Sink'.queue = Sink.queue \o [k \in 1..NumWorkers |-> SENTINEL]
     /\ Sink'.workers = Sink.workers

StopNeverWaits ==
  (sinks # <<>> /\ Len(sinkLog) < MaxSinkCalls) => ENABLED SinkStop(1)

OneSentinelEach ==
  sinks # <<>> =>
    /\ \A t \in DOMAIN Sink.workers :
         /\ Sink.workers[t].sentinels <= 1
         /\ Sink.workers[t].st = "exited" <=> Sink.workers[t].sentinels = 1
    /\ Exited <= StopsDone * NumWorkers

SaveRefused ==
  (Called("save") /\ ~Sink.running) =>
     /\ LastCall.raised /\ LastCall.queued = 0
     /\ Sink'.queue = Sink.queue /\ ~Sink'.running

WorkersTerminate ==
  \A k \in 1..MaxSinkCalls :
    (sinks # <<>> /\ StopsDone = k) ~> (Exited >= k * NumWorkers)

====
